---- MODULE Spec2Model ----
(***************************************************************************)
(* Model of the news aggregator's storage layer (src/scrapers/storage.py)  *)
(* and of the aggregation run (src/scrapers/main.py).                      *)
(*                                                                         *)
(* Python values are tagged records: [t |-> "none"], [t |-> "str", v],     *)
(* [t |-> "dt", ...] (datetime), [t |-> "list", v].  A text that is read   *)
(* as an ISO-8601 timestamp is a sequence of segments, so that formatting  *)
(* and parsing are two different computations.                             *)
(***************************************************************************)
EXTENDS Integers, Sequences, FiniteSets, TLC

VARIABLES
    files,      \* storage directory: file name -> [mtime, kind, content]
    now,        \* wall clock, in seconds
    ops,        \* number of storage operations performed so far
    ret,        \* the last storage operation: name, arguments, outcome
    cfg,        \* aggregation run: sources, parallel flag, what the sites can do
    pc,         \* position of scrape_all_sources
    fut,        \* per scraper: state of its future and its result
    early,      \* futures already finished when as_completed() started
    finishOrder,  \* scrapers in the order their workers finished
    handled,    \* scrapers in the order the coordinating loop handled them
    all_articles, \* the list scrape_all_sources accumulates
    saveLog,    \* the save_articles calls of the run, in order
    scr,        \* one scraper instance inside scrape_articles()
    proc,       \* the article processor and the articles it was handed
    scan        \* a load_articles and a cleanup_old_articles call in progress

storeVars == <<files, now, ops, ret>>

runVars == <<cfg, pc, fut, early, finishOrder, handled, all_articles, saveLog>>

sideVars == <<scr, proc, scan>>

vars == <<files, now, ops, ret, cfg, pc, fut, early, finishOrder, handled,
          all_articles, saveLog, scr, proc, scan>>

\* ------------------------------------------------------------------ bounds
MaxTime == 3
MaxOps == 2
MaxBatch == 2
DayTicks == 2

\* ------------------------------------------------------- Python values
None == [t |-> "none"]

Str(s) == [t |-> "str", v |-> s]

List(s) == [t |-> "list", v |-> s]

\* datetime: seconds, microseconds, and a UTC offset when timezone-aware
DT(sec, usec, aware, off) ==
    [t |-> "dt", sec |-> sec, usec |-> usec, aware |-> aware, off |-> off]

\* datetime.isoformat(): the fraction is printed only when microsecond # 0,
\* the offset only for an aware datetime
isoformat_noMicro(dt) ==
    <<[c |-> "T", n |-> dt.sec]>>
    \o (IF dt.aware THEN <<[c |-> "+", n |-> dt.off]>> ELSE <<>>)

isoformat(dt) ==
    <<[c |-> "T", n |-> dt.sec]>>
    \o (IF dt.usec # 0 THEN <<[c |-> ".", n |-> dt.usec]>> ELSE <<>>)
    \o (IF dt.aware THEN <<[c |-> "+", n |-> dt.off]>> ELSE <<>>)

\* datetime.fromisoformat(): [ok |-> FALSE] stands for ValueError
fromisoformat(text) ==
    LET n == Len(text)
        frac == n >= 2 /\ text[2].c = "."
        rest == IF frac THEN SubSeq(text, 3, n) ELSE SubSeq(text, 2, n)
        wellFormed ==
            /\ n >= 1
            /\ text[1].c = "T"
            /\ Len(rest) <= 1
            /\ (Len(rest) = 1 => rest[1].c = "+")
    IN  IF wellFormed
        THEN [ok |-> TRUE,
              dt |-> DT(text[1].n,
                        IF frac THEN text[2].n ELSE 0,
                        Len(rest) = 1,
                        IF Len(rest) = 1 THEN rest[1].n ELSE 0)]
        ELSE [ok |-> FALSE]

\* ------------------------------------------------------------ Article
ArticleKeys ==
    {"title", "url", "body", "summary", "category", "source",
     "published_at", "scraped_at", "author", "tags"}

RequiredStrKeys == {"title", "url", "body", "source"}

OptionalStrKeys == {"summary", "category", "author"}

\* the keys for which key.endswith('_at') holds
EndsWithAt(key) == key \in {"published_at", "scraped_at", "created_at"}

FieldDefault(key) == IF key = "tags" THEN List(<<>>) ELSE None

\* Article(**data): pydantic validation of one record; extra keys are ignored
ArticleValid(data) ==
    /\ RequiredStrKeys \subseteq DOMAIN data
    /\ \A k \in RequiredStrKeys : data[k].t = "str"
    /\ "scraped_at" \in DOMAIN data
    /\ data["scraped_at"].t = "dt"
    /\ \A k \in OptionalStrKeys \cap DOMAIN data : data[k].t \in {"none", "str"}
    /\ "published_at" \in DOMAIN data => data["published_at"].t \in {"none", "dt"}
    /\ "tags" \in DOMAIN data => data["tags"].t = "list"

Article(data) ==
    [k \in ArticleKeys |-> IF k \in DOMAIN data THEN data[k] ELSE FieldDefault(k)]

\* save_articles, lines 37-41: model_dump(), then every datetime to ISO text
ArticleToDict(article) ==
    [k \in DOMAIN article |->
        IF article[k].t = "dt" THEN Str(isoformat(article[k])) ELSE article[k]]

\* _load_file, lines 96-101: ISO text under a key ending in '_at' back to a
\* datetime, None when it does not parse
DictToFields(data) ==
    [k \in DOMAIN data |->
        IF EndsWithAt(k) /\ data[k].t = "str"
        THEN LET p == fromisoformat(data[k].v)
             IN  IF p.ok THEN p.dt ELSE None
        ELSE data[k]]

\* json.dump raises TypeError on a value that is not JSON (a datetime)
JsonSerializable(d) == \A k \in DOMAIN d : d[k].t # "dt"


\* ------------------------------------------------------------ sample data
a1 ==
    [title |-> Str("t1"), url |-> Str("u1"), body |-> Str("b1"),
     summary |-> None, category |-> Str("tech"), source |-> Str("A"),
     published_at |-> None, scraped_at |-> DT(1, 0, FALSE, 0),
     author |-> None, tags |-> List(<<>>)]

a2 ==
    [title |-> Str("t2"), url |-> Str("u2"), body |-> Str("b2"),
     summary |-> Str("s2"), category |-> None, source |-> Str("B"),
     published_at |-> DT(0, 5, FALSE, 0), scraped_at |-> DT(2, 7, FALSE, 0),
     author |-> Str("bob"), tags |-> List(<<"x", "y">>)]

a3 ==
    [title |-> Str("t3"), url |-> Str("u3"), body |-> Str("b3"),
     summary |-> None, category |-> Str("tech"), source |-> Str("A"),
     published_at |-> DT(1, 0, TRUE, 1), scraped_at |-> DT(2, 0, TRUE, 1),
     author |-> None, tags |-> List(<<"x">>)]

\* articles whose category is the empty string, and the literal default
a4 ==
    [a1 EXCEPT !.title = Str("t4"), !.category = Str(""),
               !.scraped_at = DT(2, 0, FALSE, 0)]

a5 ==
    [a1 EXCEPT !.title = Str("t5"), !.category = Str("uncategorized"),
               !.scraped_at = DT(0, 3, FALSE, 0)]

Pool == {a1, a2, a3}

SeqsUpTo(S, n) == UNION {[1..k -> S] : k \in 0..n}

Batches == SeqsUpTo(Pool, MaxBatch)

\* source_name arguments; NoLabel stands for None (and for the empty string)
NoLabel == <<>>

Labels == {<<"A">>, NoLabel}

\* ------------------------------------------------------------ files
Garbage == [t |-> "garbage"]

Json(v) == [t |-> "json", v |-> v]

Dict(v) == [t |-> "dict", v |-> v]

File(mtime, content) ==
    [mtime |-> mtime, kind |-> "file", locked |-> FALSE, content |-> content]

\* f"{source_name}_{timestamp}.json", timestamp to the second (lines 25-32)
FileName(source_name, ts) ==
    (IF source_name # NoLabel THEN source_name ELSE <<"articles">>)
    \o <<"_", ToString(ts), ".json">>

\* the batch envelope of lines 47-52
Envelope(articles, source_name, ts) ==
    Dict([scraped_at |-> Str(isoformat(DT(ts, 0, FALSE, 0))),
          source |-> IF source_name # NoLabel THEN Str(source_name) ELSE None,
          count |-> Len(articles),
          articles |-> List([i \in 1..Len(articles) |-> ArticleToDict(articles[i])])])

Put(fs, name, file) ==
    [n \in DOMAIN fs \cup {name} |-> IF n = name THEN file ELSE fs[n]]

Remove(fs, name) == [n \in DOMAIN fs \ {name} |-> fs[n]]

\* save_articles (lines 23-59).  fault: "none", "open" (open() raises, nothing
\* is touched) or "write" (the file is opened, hence created or truncated,
\* and json.dump raises part-way).  Result: the directory afterwards, whether
\* the call raised, and the returned path.
save_articles(fs, clock, articles, source_name, fault) ==
    LET path == FileName(source_name, clock)
        data == Envelope(articles, source_name, clock)
        dumpable == \A i \in 1..Len(articles) : JsonSerializable(data.v.articles.v[i])
    IN  IF fault = "open"
        THEN [files |-> fs, raised |-> TRUE, path |-> path]
        ELSE IF fault = "write" \/ ~dumpable
        THEN [files |-> Put(fs, path, File(clock, Garbage)),
              raised |-> TRUE, path |-> path]
        ELSE [files |-> Put(fs, path, File(clock, Json(data))),
              raised |-> FALSE, path |-> path]

\* _load_file (lines 87-109): every exception yields the empty list
_load_file(fs, filepath) ==
    IF filepath \notin DOMAIN fs \/ fs[filepath].kind # "file"
    THEN <<>>
    ELSE LET content == fs[filepath].content IN
    IF content.t # "json" THEN <<>>
    ELSE LET data == content.v IN
    IF data.t # "dict" THEN <<>>
    ELSE LET arts == IF "articles" \in DOMAIN data.v
                     THEN data.v.articles ELSE List(<<>>) IN
    IF arts.t # "list" THEN <<>>
    ELSE LET fields == [i \in 1..Len(arts.v) |-> DictToFields(arts.v[i])] IN
    IF \A i \in 1..Len(fields) : ArticleValid(fields[i])
    THEN [i \in 1..Len(fields) |-> Article(fields[i])]
    ELSE <<>>


\* ------------------------------------------------------------ directory scan
DefaultMaxAgeDays == 7

NoPath == <<>>

NoCategory == ""

\* Python's `source in json_file.name`: a contiguous run of the name
Contains(name, source) ==
    \E i \in 1..(Len(name) - Len(source) + 1) :
        SubSeq(name, i, i + Len(source) - 1) = source

\* datetime.now() - timedelta(days=max_age_days)
Cutoff(clock, max_age_days) == clock - max_age_days * DayTicks

\* line 76: the file is skipped when its mtime is before the cutoff
LoadSkips(mtime, cutoff) == mtime < cutoff

\* line 131 (the strict test), and the same test made inclusive
CleanupSelects_inclusive(mtime, cutoff) == mtime <= cutoff

CleanupSelects(mtime, cutoff) == mtime < cutoff

\* json_file.stat() raises for a directory entry without a target
StatRaises(file) == file.kind = "dangling"

\* the orders in which glob("*.json") can list the directory
DirOrders(fs) ==
    {o \in [1..Cardinality(DOMAIN fs) -> DOMAIN fs] :
        \A i, j \in DOMAIN o : i # j => o[i] # o[j]}

RECURSIVE ScanFrom(_, _, _, _, _, _)
ScanFrom(fs, order, i, cutoff, source, acc) ==
    IF i > Len(order) THEN [raised |-> FALSE, value |-> acc]
    ELSE IF StatRaises(fs[order[i]]) THEN [raised |-> TRUE, value |-> <<>>]
    ELSE IF LoadSkips(fs[order[i]].mtime, cutoff)
         THEN ScanFrom(fs, order, i + 1, cutoff, source, acc)
    ELSE IF source # NoLabel /\ ~Contains(order[i], source)
         THEN ScanFrom(fs, order, i + 1, cutoff, source, acc)
    ELSE ScanFrom(fs, order, i + 1, cutoff, source, acc \o _load_file(fs, order[i]))

\* load_articles (lines 61-85)
load_articles(fs, clock, filepath, source, max_age_days, order) ==
    IF filepath # NoPath
    THEN [raised |-> FALSE, value |-> _load_file(fs, filepath)]
    ELSE ScanFrom(fs, order, 1, Cutoff(clock, max_age_days), source, <<>>)

RECURSIVE CleanupFrom(_, _, _, _)
CleanupFrom(fs, order, i, cutoff) ==
    IF i > Len(order) THEN [raised |-> FALSE, files |-> fs]
    ELSE IF StatRaises(fs[order[i]]) THEN [raised |-> TRUE, files |-> fs]
    ELSE IF CleanupSelects(fs[order[i]].mtime, cutoff) /\ ~fs[order[i]].locked
         THEN CleanupFrom(Remove(fs, order[i]), order, i + 1, cutoff)
    ELSE CleanupFrom(fs, order, i + 1, cutoff)

\* cleanup_old_articles (lines 125-140); unlink() of a locked file raises,
\* which is logged, and the loop goes on
cleanup_old_articles(fs, clock, max_age_days, order) ==
    CleanupFrom(fs, order, 1, Cutoff(clock, max_age_days))

\* ------------------------------------------------------------ latest
\* the instant of a datetime, for comparison with one of the same awareness
Instant(dt) == IF dt.aware THEN dt.sec - dt.off ELSE dt.sec

\* a >= b on datetimes of the same awareness
DtGeq(a, b) ==
    \/ Instant(a) > Instant(b)
    \/ Instant(a) = Instant(b) /\ a.usec >= b.usec

\* comparing a naive with an aware datetime raises TypeError
SortRaises(articles) ==
    \E i, j \in 1..Len(articles) :
        articles[i].scraped_at.aware # articles[j].scraped_at.aware

RECURSIVE InsertDesc(_, _)
InsertDesc(sorted, x) ==
    IF sorted = <<>> THEN <<x>>
    ELSE IF DtGeq(Head(sorted).scraped_at, x.scraped_at)
         THEN <<Head(sorted)>> \o InsertDesc(Tail(sorted), x)
    ELSE <<x>> \o sorted

RECURSIVE SortFrom(_, _, _)
SortFrom(articles, i, acc) ==
    IF i > Len(articles) THEN acc
    ELSE SortFrom(articles, i + 1, InsertDesc(acc, articles[i]))

\* articles.sort(key=scraped_at, reverse=True) unchanged and, as a variant,
\* without reverse=True
SortByScrapedAt_ascending(articles) ==
    LET d == SortFrom(articles, 1, <<>>)
    IN  [i \in 1..Len(d) |-> d[Len(d) + 1 - i]]

SortByScrapedAt(articles) == SortFrom(articles, 1, <<>>)

\* Python's articles[:limit]
SliceTo(s, limit) ==
    IF limit >= 0
    THEN SubSeq(s, 1, IF limit < Len(s) THEN limit ELSE Len(s))
    ELSE SubSeq(s, 1, IF Len(s) + limit > 0 THEN Len(s) + limit ELSE 0)

HasCategory(article, category) ==
    article.category.t = "str" /\ article.category.v = category

\* get_latest_articles (lines 111-123)
get_latest_articles(fs, clock, limit, category, order) ==
    LET loaded == load_articles(fs, clock, NoPath, NoLabel, DefaultMaxAgeDays, order)
        kept == IF category # NoCategory
                THEN SelectSeq(loaded.value, LAMBDA a : HasCategory(a, category))
                ELSE loaded.value
    IN  IF loaded.raised \/ SortRaises(kept)
        THEN [raised |-> TRUE, value |-> <<>>]
        ELSE [raised |-> FALSE, value |-> SliceTo(SortByScrapedAt(kept), limit)]


\* ------------------------------------------------------------ storage operations
Faults == {"none", "open", "write"}

MaxAgeChoices == {0, 1}

Limits == {0, 1, 3}

Categories == {NoCategory, "tech"}

SourceFilters == {NoLabel, <<"A">>}

EmptyDir == [n \in {} |-> None]

Saved(fs, clock, articles, source_name) ==
    save_articles(fs, clock, articles, source_name, "none").files

\* directories left behind by earlier saves
InitDirs ==
    { EmptyDir,
      Saved(Saved(EmptyDir, 0, <<a1, a2>>, <<"A">>), 1, <<a2, a1>>, <<"B">>),
      Saved(Saved(EmptyDir, 0, <<a1>>, <<"A">>), 1, <<a2, a1, a2>>, NoLabel),
      Saved(Saved(EmptyDir, 0, <<a3>>, <<"A">>), 1, <<a1, a3>>, <<"B">>) }

\* no scraper is scraping and no processor exists
NoScraper == [pc |-> "idle"]

NoProcessor == [pc |-> "idle"]

\* no load_articles or cleanup_old_articles call is under way
NoScan == [loader |-> [pc |-> "idle"], cleaner |-> [pc |-> "idle"]]

SideIdle ==
    /\ scr = NoScraper
    /\ proc = NoProcessor
    /\ scan = NoScan

RunIdle ==
    /\ cfg = [sources |-> <<>>, parallel |-> FALSE]
    /\ pc = "idle"
    /\ fut = <<>>
    /\ early = {}
    /\ finishOrder = <<>>
    /\ handled = <<>>
    /\ all_articles = <<>>
    /\ saveLog = <<>>

InitStore ==
    /\ files \in InitDirs
    /\ now = MaxTime - 1
    /\ ops = 0
    /\ ret = [op |-> "init", raised |-> FALSE]
    /\ RunIdle
    /\ SideIdle

Tick ==
    /\ now < MaxTime
    /\ now' = now + 1
    /\ UNCHANGED <<files, ops, ret>>
    /\ UNCHANGED runVars
    /\ UNCHANGED sideVars

SaveArticles ==
    /\ ops < MaxOps
    /\ \E source_name \in Labels, fault \in Faults :
       \E articles \in (IF fault = "none" THEN Batches ELSE {<<a1>>}) :
        LET r == save_articles(files, now, articles, source_name, fault)
        IN  /\ files' = r.files
            /\ ret' = [op |-> "save", articles |-> articles,
                       source_name |-> source_name, before |-> files,
                       raised |-> r.raised, path |-> r.path]
    /\ ops' = ops + 1
    /\ UNCHANGED now
    /\ UNCHANGED runVars
    /\ UNCHANGED sideVars

LoadArticlesFile ==
    /\ ops < MaxOps
    /\ \E filepath \in DOMAIN files \cup {FileName(<<"A">>, 0)} :
        LET r == load_articles(files, now, filepath, NoLabel, DefaultMaxAgeDays, <<>>)
        IN  ret' = [op |-> "load_file", filepath |-> filepath,
                    raised |-> r.raised, value |-> r.value]
    /\ ops' = ops + 1
    /\ UNCHANGED <<files, now>>
    /\ UNCHANGED runVars
    /\ UNCHANGED sideVars

LoadArticlesScan ==
    /\ \E source \in SourceFilters, days \in MaxAgeChoices, order \in DirOrders(files) :
        LET r == load_articles(files, now, NoPath, source, days, order)
        IN  ret' = [op |-> "load", source |-> source, max_age_days |-> days,
                    order |-> order, at |-> now,
                    before |-> files, raised |-> r.raised, value |-> r.value]
    /\ UNCHANGED <<files, now, ops>>
    /\ UNCHANGED runVars
    /\ UNCHANGED sideVars

CleanupOldArticles ==
    /\ ops < MaxOps
    /\ \E days \in MaxAgeChoices, order \in DirOrders(files) :
        LET r == cleanup_old_articles(files, now, days, order)
        IN  /\ files' = r.files
            /\ ret' = [op |-> "cleanup", max_age_days |-> days, at |-> now,
                       before |-> files, raised |-> r.raised,
                       removed |-> DOMAIN files \ DOMAIN r.files,
                       again |-> /\ ret.op = "cleanup"
                                 /\ ~ret.raised
                                 /\ ret.max_age_days = days
                                 /\ ret.at = now,
                       removedBefore |-> IF ret.op = "cleanup"
                                         THEN ret.removed ELSE {}]
    /\ ops' = ops + 1
    /\ UNCHANGED now
    /\ UNCHANGED runVars
    /\ UNCHANGED sideVars

GetLatestArticles ==
    /\ \E limit \in Limits, category \in Categories, order \in DirOrders(files) :
        LET r == get_latest_articles(files, now, limit, category, order)
        IN  ret' = [op |-> "latest", limit |-> limit, category |-> category,
                    raised |-> r.raised, value |-> r.value]
    /\ UNCHANGED <<files, now, ops>>
    /\ UNCHANGED runVars
    /\ UNCHANGED sideVars

\* `article.category or 'uncategorized'` (main.py line 146): None and the
\* empty string both fall to the default; the variant has no default
Uncategorized == "uncategorized"

BucketOf_noDefault(article) ==
    IF article.category.t = "str" THEN article.category.v ELSE ""

BucketOf(article) ==
    IF article.category.t = "str" /\ article.category.v # ""
    THEN article.category.v
    ELSE Uncategorized

\* get_articles_by_category (main.py lines 140-155): load everything in the
\* default window, append each article to its bucket, sort every bucket by
\* scraped_at descending; the load and the sort can raise
get_articles_by_category(fs, clock, order) ==
    LET loaded == load_articles(fs, clock, NoPath, NoLabel, DefaultMaxAgeDays, order)
        keys == {BucketOf(loaded.value[i]) : i \in 1..Len(loaded.value)}
        bucket(c) == SelectSeq(loaded.value, LAMBDA a : BucketOf(a) = c)
    IN  IF loaded.raised \/ \E c \in keys : SortRaises(bucket(c))
        THEN [raised |-> TRUE, value |-> <<>>]
        ELSE [raised |-> FALSE,
              value |-> [c \in keys |-> SortByScrapedAt(bucket(c))]]

GetArticlesByCategory ==
    /\ \E order \in DirOrders(files) :
        LET r == get_articles_by_category(files, now, order)
        IN  ret' = [op |-> "by_category", order |-> order, at |-> now,
                    before |-> files, raised |-> r.raised, value |-> r.value]
    /\ UNCHANGED <<files, now, ops>>
    /\ UNCHANGED runVars
    /\ UNCHANGED sideVars

NextStore ==
    \/ Tick
    \/ SaveArticles
    \/ LoadArticlesFile
    \/ CleanupOldArticles

SpecStore == InitStore /\ [][NextStore]_vars

\* --- a storage directory that also holds entries save_articles did not
\* write: ArticleStorage.__init__ adopts whatever the directory contains
BadRecord ==
    [title |-> Str("t9"), url |-> Str("u9"), body |-> Str("b9"),
     source |-> Str("A"), scraped_at |-> Str(<<[c |-> "?", n |-> 0]>>)]

ForeignFiles ==
    { File(MaxTime - 1, Garbage),
      File(MaxTime - 1, Json(List(<<>>))),
      File(MaxTime - 1, Json(Dict([articles |-> None]))),
      File(MaxTime - 1, Json(Dict([articles |-> List(<<ArticleToDict(a2), BadRecord>>)]))),
      [File(MaxTime - 1, Garbage) EXCEPT !.kind = "unreadable"],
      [File(MaxTime - 1, Garbage) EXCEPT !.kind = "dangling"],
      [File(0, Json(Envelope(<<a2>>, <<"A">>, 0))) EXCEPT !.locked = TRUE],
      File(MaxTime - 1, Json(Envelope(<<a4, a1, a5>>, <<"A">>, MaxTime - 1))) }

ForeignName == <<"A", "_", "copy", ".json">>

QueryDirs ==
    InitDirs \cup {Put(d, ForeignName, f) : d \in InitDirs, f \in ForeignFiles}

InitQuery ==
    /\ files \in QueryDirs
    /\ now = MaxTime - 1
    /\ ops = 0
    /\ ret = [op |-> "init", raised |-> FALSE]
    /\ RunIdle
    /\ SideIdle

NextQuery ==
    \/ Tick
    \/ LoadArticlesScan
    \/ GetLatestArticles
    \/ GetArticlesByCategory
    \/ CleanupOldArticles

SpecQuery == InitQuery /\ [][NextQuery]_vars

\* ------------------------------------------------------------ aggregation run
MaxSources == 2

MaxWorkers == 5

AllSources == <<"all_sources">>

SourceConfigs ==
    { [name |-> <<"A">>, enabled |-> TRUE],
      [name |-> <<"B">>, enabled |-> TRUE],
      [name |-> <<"A">>, enabled |-> FALSE] }

\* what one scraper's scrape_articles() does: return a list, or raise after
\* having collected some articles
ScrapeOutcomes ==
    { [raises |-> TRUE, articles |-> <<a1>>],
      [raises |-> FALSE, articles |-> <<>>],
      [raises |-> FALSE, articles |-> <<a2, a1>>],
      [raises |-> FALSE, articles |-> <<a3>>] }

\* the ways a save of the run can go: it succeeds, or the write breaks off
RunFaults == {"none", "write"}

NoOutcome == [raises |-> FALSE, articles |-> <<>>]

\* what the site of a source has to offer during the run
Fresh(name) == IF name = <<"A">> THEN <<a2, a1>> ELSE <<a3>>

\* the outcomes a scrape of that source can have
SiteOutcomes(name) ==
    {o \in ScrapeOutcomes : o.raises \/ o.articles \in {<<>>, Fresh(name)}}

SourceNames == {src.name : src \in SourceConfigs}

\* _create_scrapers (lines 93-125): one scraper per enabled source, in
\* configuration order
_create_scrapers(config) ==
    LET on == SelectSeq(config.sources, LAMBDA src : src.enabled)
    IN  [i \in 1..Len(on) |-> on[i].name]

Scrapers == _create_scrapers(cfg)

\* _scrape_source (lines 127-134): an exception yields the empty list
_scrape_source_keepsPartial(outcome) == outcome.articles

_scrape_source(outcome) ==
    IF outcome.raises THEN <<>> ELSE outcome.articles

\* all_articles.extend(articles) (lines 64, 77)
Extend_replaces(all, articles) == articles

Extend(all, articles) == all \o articles

\* `if articles:` (lines 67, 80) and `if all_articles:` (line 87)
ShouldSave_always(articles) == TRUE

ShouldSave(articles) == articles # <<>>

InitRun ==
    /\ files = EmptyDir
    /\ now = MaxTime - 1
    /\ ops = 0
    /\ ret = [op |-> "init", raised |-> FALSE]
    /\ cfg \in {[sources |-> ss, parallel |-> par,
                  outcomes |-> [name \in SourceNames |-> SiteOutcomes(name)]] :
                    ss \in SeqsUpTo(SourceConfigs, MaxSources), par \in BOOLEAN}
    /\ pc = "start"
    /\ fut = <<>>
    /\ early = {}
    /\ finishOrder = <<>>
    /\ handled = <<>>
    /\ all_articles = <<>>
    /\ saveLog = <<>>
    /\ SideIdle

RunTick ==
    /\ now < MaxTime
    /\ pc \notin {"returned", "raised"}
    /\ now' = now + 1
    /\ UNCHANGED <<files, ops, ret>>
    /\ UNCHANGED runVars
    /\ UNCHANGED sideVars

\* lines 49-58: create the scrapers; in parallel mode submit one future each
Start ==
    /\ pc = "start"
    /\ fut' = [i \in 1..Len(Scrapers) |->
                [state |-> "pending", outcome |-> NoOutcome, result |-> <<>>]]
    /\ pc' = IF cfg.parallel /\ Len(Scrapers) > 1 THEN "submitted" ELSE "sequential"
    /\ UNCHANGED <<cfg, early, finishOrder, handled, all_articles, saveLog>>
    /\ UNCHANGED storeVars
    /\ UNCHANGED sideVars

\* ThreadPoolExecutor(max_workers=5) (line 54): a submitted call waits in
\* the pool's queue while all its threads are busy; the variant is a pool
\* that always has a free thread
PoolFull_never(running) == FALSE

PoolFull(running) == Cardinality(running) >= MaxWorkers

\* a pool thread picks up a submitted future
WorkerStart(i) ==
    /\ pc \in {"submitted", "loop"}
    /\ fut[i].state = "pending"
    /\ ~PoolFull({j \in DOMAIN fut : fut[j].state = "running"})
    /\ fut' = [fut EXCEPT ![i].state = "running"]
    /\ UNCHANGED <<cfg, pc, early, finishOrder, handled, all_articles, saveLog>>
    /\ UNCHANGED storeVars
    /\ UNCHANGED sideVars

\* the storage directory after a pool thread's _scrape_source (lines
\* 127-134): it runs scraper.scrape_articles() inside `with scraper:` and
\* nothing else, so the directory is the one before; the variant is a worker
\* that saves what it scraped
FilesAfterScrape_saving(fs, clock, articles, source_name) ==
    save_articles(fs, clock, articles, source_name, "none").files

FilesAfterScrape(fs, clock, articles, source_name) == fs

\* the pool thread's _scrape_source(scraper) returns
WorkerFinish(i) ==
    /\ pc \in {"submitted", "loop"}
    /\ fut[i].state = "running"
    /\ \E outcome \in cfg.outcomes[Scrapers[i]] :
        /\ fut' = [fut EXCEPT ![i] = [state |-> "done", outcome |-> outcome,
                                      result |-> _scrape_source(outcome)]]
        /\ files' = FilesAfterScrape(files, now, _scrape_source(outcome), Scrapers[i])
    /\ finishOrder' = Append(finishOrder, i)
    /\ UNCHANGED <<cfg, pc, early, handled, all_articles, saveLog>>
    /\ UNCHANGED <<now, ops, ret>>
    /\ UNCHANGED sideVars

\* as_completed() is entered: the futures already finished are yielded
\* first, in no particular order, the others as they finish
AsCompleted ==
    /\ pc = "submitted"
    /\ early' = {i \in DOMAIN fut : fut[i].state = "done"}
    /\ pc' = "loop"
    /\ UNCHANGED <<cfg, fut, finishOrder, handled, all_articles, saveLog>>
    /\ UNCHANGED storeVars
    /\ UNCHANGED sideVars

\* as_completed() yields each future once (it drops a future from its
\* pending set when it yields it); the variant forgets what it has yielded
IsHandled_never(i) == FALSE

IsHandled(i) == \E k \in 1..Len(handled) : handled[k] = i

\* the futures as_completed() can yield next
NextCompleted ==
    IF \E i \in early : ~IsHandled(i)
    THEN {i \in early : ~IsHandled(i)}
    ELSE LET waiting == SelectSeq(finishOrder, LAMBDA i : ~IsHandled(i))
         IN  IF waiting = <<>> THEN {} ELSE {Head(waiting)}

\* one pass of the loop body (lines 61-71 and 75-84) for scraper i whose
\* scrape returned `articles`: extend, then save unless empty; an exception
\* of the save is caught and logged by the loop
HandleResult(i, articles) ==
    /\ all_articles' = Extend(all_articles, articles)
    /\ handled' = Append(handled, i)
    /\ IF ShouldSave(articles)
       THEN \E fault \in RunFaults :
              LET r == save_articles(files, now, articles, Scrapers[i], fault)
              IN  /\ files' = r.files
                  /\ saveLog' = Append(saveLog,
                        [kind |-> "source", scraper |-> i,
                         source_name |-> Scrapers[i], articles |-> articles,
                         path |-> r.path, raised |-> r.raised, at |-> now,
                         handledBefore |-> handled,
                         unfinished |-> {j \in DOMAIN fut : j # i /\ fut[j].state # "done"}])
       ELSE UNCHANGED <<files, saveLog>>
    /\ UNCHANGED <<now, ops, ret, cfg, early>>
    /\ UNCHANGED sideVars

\* parallel branch: the loop over as_completed (lines 60-71)
HandleFuture(i) ==
    /\ pc = "loop"
    /\ i \in NextCompleted
    /\ HandleResult(i, fut[i].result)
    /\ UNCHANGED <<pc, fut, finishOrder>>

\* sequential branch: one iteration of the loop over scrapers (lines 74-84)
SequentialIteration ==
    /\ pc = "sequential"
    /\ Len(handled) < Len(Scrapers)
    /\ LET i == Len(handled) + 1
       IN  \E outcome \in cfg.outcomes[Scrapers[i]] :
            /\ fut' = [fut EXCEPT ![i] = [state |-> "done", outcome |-> outcome,
                                          result |-> _scrape_source(outcome)]]
            /\ finishOrder' = Append(finishOrder, i)
            /\ HandleResult(i, _scrape_source(outcome))
    /\ UNCHANGED pc

\* either loop is over; in parallel mode the executor has shut down
LoopDone ==
    /\ pc \in {"loop", "sequential"}
    /\ Len(handled) = Len(Scrapers)
    /\ pc' = "aggregate"
    /\ UNCHANGED <<cfg, fut, early, finishOrder, handled, all_articles, saveLog>>
    /\ UNCHANGED storeVars
    /\ UNCHANGED sideVars

\* lines 86-91: save everything as "all_sources", then return; an exception
\* of this save leaves scrape_all_sources
SaveAllAndReturn ==
    /\ pc = "aggregate"
    /\ IF ShouldSave(all_articles)
       THEN \E fault \in RunFaults :
              LET r == save_articles(files, now, all_articles, AllSources, fault)
              IN  /\ files' = r.files
                  /\ saveLog' = Append(saveLog,
                        [kind |-> "aggregate", scraper |-> 0,
                         source_name |-> AllSources, articles |-> all_articles,
                         path |-> r.path, raised |-> r.raised, at |-> now,
                         handledBefore |-> handled,
                         unfinished |-> {j \in DOMAIN fut : fut[j].state # "done"}])
                  /\ pc' = IF r.raised THEN "raised" ELSE "returned"
       ELSE /\ pc' = "returned"
            /\ UNCHANGED <<files, saveLog>>
    /\ UNCHANGED <<now, ops, ret, cfg, fut, early, finishOrder, handled, all_articles>>
    /\ UNCHANGED sideVars

NextRun ==
    \/ RunTick
    \/ Start
    \/ \E i \in DOMAIN fut : WorkerStart(i)
    \/ \E i \in DOMAIN fut : WorkerFinish(i)
    \/ AsCompleted
    \/ \E i \in DOMAIN fut : HandleFuture(i)
    \/ SequentialIteration
    \/ LoopDone
    \/ SaveAllAndReturn

SpecRun == InitRun /\ [][NextRun]_vars

\* the pool's side of a parallel run over more sources than the pool has
\* threads, every odd one of them enabled or not.  The coordinating thread is
\* in as_completed() meanwhile; its steps leave the futures as they are
PoolSources == MaxWorkers + 1

PoolConfigs ==
    { ss \in [1..PoolSources -> SourceConfigs] :
        \A i \in 1..PoolSources : ss[i].name = IF i % 2 = 1 THEN <<"A">> ELSE <<"B">> }

InitPool ==
    /\ files = EmptyDir
    /\ now = MaxTime - 1
    /\ ops = 0
    /\ ret = [op |-> "init", raised |-> FALSE]
    /\ cfg \in {[sources |-> ss, parallel |-> TRUE,
                  outcomes |-> [name \in SourceNames |->
                                  {o \in SiteOutcomes(name) : o.articles # <<>>}]] :
                    ss \in PoolConfigs}
    /\ pc = "start"
    /\ fut = <<>>
    /\ early = {}
    /\ finishOrder = <<>>
    /\ handled = <<>>
    /\ all_articles = <<>>
    /\ saveLog = <<>>
    /\ SideIdle

NextPool ==
    \/ Start
    \/ \E i \in DOMAIN fut : WorkerStart(i)
    \/ \E i \in DOMAIN fut : WorkerFinish(i)

SpecPool == InitPool /\ [][NextPool]_vars

\* ------------------------------------------------------------ one scraper
MaxEntries == 3

\* config.get('max_articles_per_source', 10)
DefaultMaxArticles == 10

\* fetch_page(url, timeout=30); NoTimeout: the call passes no timeout
FetchTimeout == 30

NoTimeout == 0

MaxArticlesChoices == {0, 1, 2, DefaultMaxArticles}

\* one feed entry / article element: its title ("text", "blank": the title
\* is there and holds nothing but white space or markup, "absent"), has it a link,
\* full content embedded in the feed; does parsing it raise, and if so
\* before ("early": the date fields) or after ("late": Article validation)
\* the point where the linked page is fetched
Entry(title, link, embedded, raises) ==
    [title |-> title, link |-> link, embedded |-> embedded, raises |-> raises]

EntryKinds ==
    { Entry("text", TRUE, TRUE, "no"),
      Entry("text", TRUE, FALSE, "no"),
      Entry("absent", TRUE, FALSE, "no"),
      Entry("blank", TRUE, FALSE, "no"),
      Entry("text", FALSE, FALSE, "no"),
      Entry("text", TRUE, FALSE, "early"),
      Entry("text", TRUE, FALSE, "late") }

\* the scrapers _create_scrapers can build: RSSFeedScraper, WebScraper and
\* HackerNewsScraper (fixed name and category, web_scraper.py lines 155-164)
ScraperKinds ==
    { [kind |-> "rss", source_name |-> <<"A">>, category |-> "world"],
      [kind |-> "web", source_name |-> <<"B">>, category |-> "world"],
      [kind |-> "hn", source_name |-> <<"Hacker News">>, category |-> "tech"] }

\* how the remote host treats one request: it answers, it answers with an
\* error, or it never answers
HostBehaviours == {"ok", "error", "silent"}

\* the timeout the main request carries: feedparser.parse(self.feed_url)
\* passes none (rss_scraper.py line 31), fetch_page passes timeout=30
MainTimeout(kind) == IF kind = "rss" THEN NoTimeout ELSE FetchTimeout

\* a request comes back unless the host is silent and nothing times it out
CallReturns(call) == call.host # "silent" \/ call.timeout # NoTimeout

NoCall == [timeout |-> NoTimeout, host |-> "ok"]

\* feed.entries[:max_articles] / article_elements[:max_articles], and the
\* same without the slice
Considered_all(entries, max_articles) == entries

Considered(entries, max_articles) == SliceTo(entries, max_articles)

\* _parse_entry lines 55-62, _parse_article_element lines 64-75 and the
\* HackerNews override lines 168-177 (a missing href falls back to base_url)
ReturnsNone(kind, e) ==
    CASE kind = "rss" -> e.title # "text" \/ ~e.link
      [] kind = "web" -> e.title = "absent" \/ ~e.link
      [] OTHER -> e.title = "absent"

\* the linked page is fetched by the RSS scraper unless the feed embeds the
\* content (lines 84-92), always by the web scraper (line 80), never by the
\* HackerNews scraper
NeedsFetch(kind, e) ==
    CASE kind = "rss" -> ~e.embedded
      [] kind = "web" -> TRUE
      [] OTHER -> FALSE

\* the body the Article gets
BodyOf(kind, e, fetched) ==
    CASE kind = "hn" -> "title"
      [] kind = "rss" /\ e.embedded -> "embedded"
      [] fetched -> "page"
      [] kind = "rss" -> "summary"
      [] OTHER -> "element"

\* the title the Article gets: getattr(entry, 'title', '').strip()
\* (rss_scraper.py line 55), title_elem.get_text(strip=True) (web_scraper.py
\* lines 67, 170)
TitleText(k, e) == IF e.title = "blank" THEN Str("") ELSE Str("t" \o ToString(k))

\* Article(...) of rss_scraper.py lines 102-113 and web_scraper.py lines
\* 91-100, 207-215 for the k-th entry
NewArticle(kind, source_name, category, k, e, fetched, clock) ==
    [title |-> TitleText(k, e), url |-> Str("u" \o ToString(k)),
     body |-> Str(BodyOf(kind, e, fetched)),
     summary |-> IF kind = "rss" THEN Str("s" \o ToString(k)) ELSE None,
     category |-> Str(category), source |-> Str(source_name),
     published_at |-> None, scraped_at |-> DT(clock, 0, FALSE, 0),
     author |-> None, tags |-> List(<<>>)]

\* the inner `except Exception: ... continue` (lines 42-44, 51-53): the loop
\* goes on with the next entry; the variant leaves the loop
OnEntryError_abort(i, n) == n

OnEntryError(i, n) == i + 1

Event(e, k, timeout) == [e |-> e, entry |-> k, timeout |-> timeout]

\* rate_limit() (base_scraper.py lines 84-87): time.sleep(delay), recorded in
\* the log with the entry it follows; the variant returns without sleeping
rate_limit_skipped(log, k) == log

rate_limit(log, k) == Append(log, Event("sleep", k, NoTimeout))

InitScrape ==
    /\ files = EmptyDir
    /\ now = MaxTime - 1
    /\ ops = 0
    /\ ret = [op |-> "init", raised |-> FALSE]
    /\ RunIdle
    /\ proc = NoProcessor
    /\ scan = NoScan
    /\ \E sk \in ScraperKinds, feed \in SeqsUpTo(EntryKinds, MaxEntries),
          max_articles \in MaxArticlesChoices :
        scr = [pc |-> "start", kind |-> sk.kind, source_name |-> sk.source_name,
               category |-> sk.category, max_articles |-> max_articles,
               feed |-> feed, entries |-> <<>>, i |-> 0, articles |-> <<>>,
               call |-> NoCall, log |-> <<>>]

ScrapeFrame ==
    /\ UNCHANGED storeVars
    /\ UNCHANGED runVars
    /\ UNCHANGED proc
    /\ UNCHANGED scan

\* scrape_articles is entered and issues its first request: the feed
\* (rss_scraper.py line 31) or the base page (web_scraper.py line 37)
BeginMainFetch ==
    /\ scr.pc = "start"
    /\ \E host \in HostBehaviours :
        scr' = [scr EXCEPT !.pc = "main_fetch",
                           !.call = [timeout |-> MainTimeout(scr.kind), host |-> host],
                           !.log = Append(@, Event("fetch_begin", 0, MainTimeout(scr.kind)))]
    /\ ScrapeFrame

\* the first request comes back.  A feed that could not be fetched parses
\* to no entries; a base page that could not be fetched makes fetch_page
\* return None and scrape_articles return the empty list (lines 39-40)
MainFetchReturns ==
    /\ scr.pc = "main_fetch"
    /\ CallReturns(scr.call)
    /\ LET ok == scr.call.host = "ok"
       IN  scr' = [scr EXCEPT
                !.pc = IF ok \/ scr.kind = "rss" THEN "loop" ELSE "done",
                !.entries = IF ok THEN scr.feed ELSE <<>>,
                !.call = NoCall,
                !.log = Append(@, Event("fetch_end", 0, NoTimeout))]
    /\ ScrapeFrame

\* the rest of one loop iteration once the body is known: Article(...),
\* articles.append, rate_limit(); an exception skips the entry
FinishEntry(k, e, fetched, log) ==
    IF e.raises = "late"
    THEN [scr EXCEPT !.pc = "loop", !.call = NoCall, !.log = log,
              !.i = OnEntryError(k - 1, Len(Considered(scr.entries, scr.max_articles)))]
    ELSE [scr EXCEPT !.pc = "loop", !.call = NoCall, !.i = k,
              !.articles = Append(@, NewArticle(scr.kind, scr.source_name,
                                                scr.category, k, e, fetched, now)),
              !.log = rate_limit(log, k)]

\* one loop iteration up to the point where it returns None, raises, is
\* complete, or has issued the request for the linked page
ParseEntry ==
    /\ scr.pc = "loop"
    /\ scr.i < Len(Considered(scr.entries, scr.max_articles))
    /\ LET k == scr.i + 1
           e == scr.entries[k]
           n == Len(Considered(scr.entries, scr.max_articles))
       IN  IF ReturnsNone(scr.kind, e)
           THEN scr' = [scr EXCEPT !.i = k]
           ELSE IF e.raises = "early"
           THEN scr' = [scr EXCEPT !.i = OnEntryError(k - 1, n)]
           ELSE IF NeedsFetch(scr.kind, e)
           THEN \E host \in HostBehaviours :
                  scr' = [scr EXCEPT
                      !.pc = "entry_fetch", !.i = k - 1,
                      !.call = [timeout |-> FetchTimeout, host |-> host],
                      !.log = Append(@, Event("fetch_begin", k, FetchTimeout))]
           ELSE scr' = FinishEntry(k, e, FALSE, scr.log)
    /\ ScrapeFrame

\* the linked page's request comes back (fetch_page returns a document or
\* None) and the iteration completes
EntryFetchReturns ==
    /\ scr.pc = "entry_fetch"
    /\ CallReturns(scr.call)
    /\ LET k == scr.i + 1
       IN  scr' = FinishEntry(k, scr.entries[k], scr.call.host = "ok",
                              Append(scr.log, Event("fetch_end", k, NoTimeout)))
    /\ ScrapeFrame

\* the loop is over: `return articles` (lines 49-50, 58-59)
ScrapeReturns ==
    /\ scr.pc = "loop"
    /\ scr.i >= Len(Considered(scr.entries, scr.max_articles))
    /\ scr' = [scr EXCEPT !.pc = "done"]
    /\ ScrapeFrame

NextScrape ==
    \/ BeginMainFetch
    \/ MainFetchReturns
    \/ ParseEntry
    \/ EntryFetchReturns
    \/ ScrapeReturns

SpecScrape == InitScrape /\ [][NextScrape]_vars

\* ------------------------------------------------------------ categorizer
MaxCats == 2

\* str.lower() on the category names used here
Lower(s) == IF s = "Tech" THEN "tech" ELSE s

\* category_keywords (categorizer.py lines 112-120, 209-217)
category_keywords ==
    [tech |-> {"technology", "ai", "software", "computer", "digital", "startup", "app"},
     finance |-> {"money", "bank", "stock", "investment", "market", "economy", "business"},
     health |-> {"health", "medical", "doctor", "disease", "treatment", "medicine"},
     politics |-> {"government", "election", "policy", "president", "congress", "political"},
     sports |-> {"sport", "game", "team", "player", "championship", "league"},
     science |-> {"research", "study", "scientific", "discovery", "experiment"},
     entertainment |-> {"movie", "music", "celebrity", "entertainment", "film", "show"}]

\* category_keywords.get(category.lower(), [category.lower()])
KeywordsOf(category) ==
    IF Lower(category) \in DOMAIN category_keywords
    THEN category_keywords[Lower(category)]
    ELSE {Lower(category)}

\* a text, as the set of keywords that occur in its lower-cased form
Texts ==
    { {},
      {"ai"},
      {"technology", "ai", "software", "computer", "digital"},
      {"technology", "ai", "software", "computer", "digital", "money"},
      {"money", "bank", "misc"},
      {"misc"} }

CategoryNames == {"tech", "Tech", "finance", "misc"}

CategoryLists == SeqsUpTo(CategoryNames, MaxCats)

\* scores are kept in tenths: base 0.1, 0.2 per keyword found, at most 1.0
\* (lines 123-130); the variant has no base score
RawScore_noBase(text, category) ==
    LET score == 2 * Cardinality(KeywordsOf(category) \cap text)
    IN  IF score < 10 THEN score ELSE 10

RawScore(text, category) ==
    LET score == 1 + 2 * Cardinality(KeywordsOf(category) \cap text)
    IN  IF score < 10 THEN score ELSE 10

RECURSIVE SumValues(_, _)
SumValues(d, keys) ==
    IF keys = {} THEN 0
    ELSE LET k == CHOOSE x \in keys : TRUE
         IN  d[k] + SumValues(d, keys \ {k})

\* _fallback_categorize (lines 106-137, 203-234): a dict keyed by category
\* name, so a name listed twice has one score; every score divided by the
\* total when the total is positive.  A quotient v/total is the pair
\* [num |-> v, den |-> total]
_fallback_categorize(text, categories) ==
    LET keys == {categories[i] : i \in 1..Len(categories)}
        scores == [c \in keys |-> RawScore(text, c)]
        total == SumValues(scores, keys)
    IN  IF total > 0
        THEN [c \in keys |-> [num |-> scores[c], den |-> total]]
        ELSE [c \in keys |-> [num |-> scores[c], den |-> 10]]

InitCategorize ==
    /\ files = EmptyDir
    /\ now = MaxTime - 1
    /\ ops = 0
    /\ ret = [op |-> "init", raised |-> FALSE]
    /\ RunIdle
    /\ scr = NoScraper
    /\ scan = NoScan
    /\ \E text \in Texts, categories \in CategoryLists :
        proc = [pc |-> "categorize", text |-> text, categories |-> categories]

FallbackCategorize ==
    /\ proc.pc = "categorize"
    /\ proc' = [pc |-> "scored", text |-> proc.text, categories |-> proc.categories,
                scores |-> _fallback_categorize(proc.text, proc.categories)]
    /\ UNCHANGED storeVars
    /\ UNCHANGED runVars
    /\ UNCHANGED scr
    /\ UNCHANGED scan

NextCategorize == FallbackCategorize

SpecCategorize == InitCategorize /\ [][NextCategorize]_vars

\* ------------------------------------------------------------ processor
\* ArticleCategorizer's default categories (categorizer.py lines 242-245)
DefaultCategories ==
    <<"tech", "finance", "health", "politics", "sports", "entertainment",
      "science", "business">>

DefaultMaxSummaryLength == 200

MaxSummaryLengths == {6, DefaultMaxSummaryLength}

\* a body as its sentences' lengths, text.split('. ')
SentenceLengths(body) ==
    CASE body = "b1" -> <<3>>
      [] body = "b2" -> <<4, 5>>
      [] OTHER -> <<2, 2, 9>>

\* the keywords occurring in f"{article.title}. {article.body[:1000]}"
KeywordsIn(body) ==
    CASE body = "b1" -> {"ai", "software"}
      [] body = "b2" -> {"money"}
      [] OTHER -> {}

\* _fallback_summarize (summarizer.py lines 85-94, 175-184): leading
\* sentences while len(summary + sentence) < max_length, each followed by
\* ". "; the result names how many sentences were kept
RECURSIVE LeadCount(_, _, _, _)
LeadCount(lens, i, length, max_length) ==
    IF i > Len(lens) THEN i - 1
    ELSE IF length + lens[i] < max_length
         THEN LeadCount(lens, i + 1, length + lens[i] + 2, max_length)
    ELSE i - 1

_fallback_summarize(body, max_length) ==
    Str("lead" \o ToString(LeadCount(SentenceLengths(body), 1, 0, max_length))
        \o "/" \o body)

\* what the backend's model answers
ApiSummary(body) == Str("api/" \o body)

ApiCategory == "health"

\* max(scores, key=scores.get): the first-listed category with the top score
BestCategory(scores, categories) ==
    LET top(i) == \A j \in 1..Len(categories) :
                      scores[categories[j]].num <= scores[categories[i]].num
        first == CHOOSE i \in 1..Len(categories) :
                      top(i) /\ \A j \in 1..(i - 1) : ~top(j)
    IN  categories[first]

FallbackCategory(body) ==
    BestCategory(_fallback_categorize(KeywordsIn(body), DefaultCategories),
                 DefaultCategories)

\* the environment a processor is built in: which backends are asked for,
\* whether OPENAI_API_KEY is set, whether `import openai` works, whether
\* transformers' pipeline(...) can be built
Backends == {"openai", "huggingface"}

Environments ==
    [summarizer_backend : Backends, categorizer_backend : Backends,
     api_key : BOOLEAN, openai : BOOLEAN, transformers : BOOLEAN]

\* OpenAISummarizer/OpenAICategorizer.__init__ and HuggingFace*.__init__:
\* "raise" when the constructor raises, otherwise the backend object's state
BackendInit(backend, env) ==
    IF backend = "openai"
    THEN IF ~env.api_key THEN "openai_noclient"
         ELSE IF env.openai THEN "openai_client" ELSE "raise"
    ELSE IF env.transformers THEN "huggingface" ELSE "raise"

\* ArticleProcessor.__init__ lines 26-35: a summarizer that cannot be built
\* becomes None
InitSummarizer(env) ==
    LET s == BackendInit(env.summarizer_backend, env)
    IN  IF s = "raise" THEN "none" ELSE s

\* lines 38-48: a categorizer that cannot be built is replaced by
\* ArticleCategorizer(backend="huggingface"), built outside the try
InitCategorizer(env) ==
    LET c == BackendInit(env.categorizer_backend, env)
    IN  IF c = "raise" THEN BackendInit("huggingface", env) ELSE c

\* whether a call on the backend object goes to the model at all
HasModel(backend) == backend \in {"openai_client", "huggingface"}

\* objects: the heap is a sequence of Article field records, a reference is
\* an index into it.  article.model_copy() makes a new object; the variant
\* hands back the same object
model_copy_alias(heap, ref) == [heap |-> heap, ref |-> ref]

model_copy(heap, ref) == [heap |-> Append(heap, heap[ref]), ref |-> Len(heap) + 1]

SetAttr(heap, ref, key, value) == [heap EXCEPT ![ref][key] = value]

\* process_article (lines 52-85).  api: whether the summarizer's and the
\* categorizer's model call succeeds this time
process_article(p, heap, ref, summarize, categorize, max_summary_length, api) ==
    LET copy == model_copy(heap, ref)
        article == heap[ref]
        doSum == summarize /\ p.summarizer # "none"
        summary == IF HasModel(p.summarizer) /\ api.summary
                   THEN ApiSummary(article.body.v)
                   ELSE _fallback_summarize(article.body.v, max_summary_length)
        h1 == IF doSum THEN SetAttr(copy.heap, copy.ref, "summary", summary)
              ELSE copy.heap
        category == IF HasModel(p.categorizer) /\ api.category
                    THEN Str(ApiCategory)
                    ELSE Str(FallbackCategory(article.body.v))
        h2 == IF categorize THEN SetAttr(h1, copy.ref, "category", category)
              ELSE h1
    IN  [heap |-> h2, ref |-> copy.ref,
         trace |-> [summary |-> IF ~summarize THEN "off"
                                ELSE IF HasModel(p.summarizer) /\ api.summary
                                THEN "model" ELSE "failed",
                    category |-> IF ~categorize THEN "off"
                                 ELSE IF HasModel(p.categorizer) /\ api.category
                                 THEN "model" ELSE "failed"]]

ApiOutcomes == [summary : BOOLEAN, category : BOOLEAN]

\* processed_articles.append(processed_article) (line 105); the variant
\* puts the new element in front
Collect_front(refs, ref) == <<ref>> \o refs

Collect(refs, ref) == Append(refs, ref)

\* process_articles (lines 87-116): process_article for each element in
\* order, the results appended in order
RECURSIVE ProcessFrom(_, _, _, _, _, _, _, _, _)
ProcessFrom(p, heap, articles, i, summarize, categorize, max_len, apis, acc) ==
    IF i > Len(articles)
    THEN [heap |-> heap, refs |-> acc.refs, trace |-> acc.trace]
    ELSE LET r == process_article(p, heap, articles[i], summarize, categorize,
                                  max_len, apis[i])
         IN  ProcessFrom(p, r.heap, articles, i + 1, summarize, categorize,
                         max_len, apis,
                         [refs |-> Collect(acc.refs, r.ref),
                          trace |-> Append(acc.trace, r.trace)])

process_articles(p, heap, articles, summarize, categorize, max_len, apis) ==
    ProcessFrom(p, heap, articles, 1, summarize, categorize, max_len, apis,
                [refs |-> <<>>, trace |-> <<>>])

\* the Article objects that exist before processing
InitialHeap == <<a1, a2, a3>>

InitProcess ==
    /\ files = EmptyDir
    /\ now = MaxTime - 1
    /\ ops = 0
    /\ ret = [op |-> "init", raised |-> FALSE]
    /\ RunIdle
    /\ scr = NoScraper
    /\ scan = NoScan
    /\ \E env \in Environments : proc = [pc |-> "new", env |-> env]

ProcessFrame ==
    /\ UNCHANGED storeVars
    /\ UNCHANGED runVars
    /\ UNCHANGED scr
    /\ UNCHANGED scan

\* ArticleProcessor(summarizer_backend, categorizer_backend)
ConstructProcessor ==
    /\ proc.pc = "new"
    /\ proc' = IF InitCategorizer(proc.env) = "raise"
               THEN [pc |-> "construct_raised", env |-> proc.env]
               ELSE [pc |-> "ready",
                     summarizer |-> InitSummarizer(proc.env),
                     categorizer |-> InitCategorizer(proc.env),
                     heap |-> InitialHeap]
    /\ ProcessFrame

Processed(r, articles, summarize, categorize, max_len, op) ==
    [pc |-> "processed", op |-> op,
     summarizer |-> proc.summarizer, categorizer |-> proc.categorizer,
     heap |-> r.heap, input |-> articles, output |-> r.refs,
     before |-> [i \in 1..Len(articles) |-> proc.heap[articles[i]]],
     summarize |-> summarize, categorize |-> categorize,
     max_summary_length |-> max_len, trace |-> r.trace]

\* processor.process_article(article, summarize, categorize, max_summary_length)
ProcessArticle ==
    /\ proc.pc = "ready"
    /\ \E ref \in DOMAIN proc.heap, summarize \in BOOLEAN, categorize \in BOOLEAN,
          max_len \in MaxSummaryLengths, api \in ApiOutcomes :
        LET r == process_article(proc, proc.heap, ref, summarize, categorize,
                                 max_len, api)
        IN  proc' = Processed([heap |-> r.heap, refs |-> <<r.ref>>,
                               trace |-> <<r.trace>>],
                              <<ref>>, summarize, categorize, max_len,
                              "process_article")
    /\ ProcessFrame

\* processor.process_articles(articles): the list may name an object twice
ProcessArticles ==
    /\ proc.pc = "ready"
    /\ \E articles \in SeqsUpTo(DOMAIN proc.heap, MaxBatch) :
       \E apis \in [1..Len(articles) -> ApiOutcomes] :
        LET r == process_articles(proc, proc.heap, articles, TRUE, TRUE,
                                  DefaultMaxSummaryLength, apis)
        IN  proc' = Processed(r, articles, TRUE, TRUE, DefaultMaxSummaryLength,
                              "process_articles")
    /\ ProcessFrame

NextProcess ==
    \/ ConstructProcessor
    \/ ProcessArticle
    \/ ProcessArticles

SpecProcess == InitProcess /\ [][NextProcess]_vars

\* ------------------------------------------------------------ configuration
\* one entry of news_sources.rss_feeds / news_sources.web_sources: a mapping
\* that may lack any of its keys
FullSource ==
    [name |-> <<"A">>, url |-> "http://a", category |-> "tech", enabled |-> TRUE]

Without(src, key) == [k \in DOMAIN src \ {key} |-> src[k]]

SourceEntries ==
    { FullSource,
      [FullSource EXCEPT !.enabled = FALSE],
      Without(FullSource, "name"),
      Without(FullSource, "url"),
      Without(FullSource, "category"),
      Without([FullSource EXCEPT !.enabled = FALSE], "url"),
      Without(Without(FullSource, "enabled"), "category"),
      Without([FullSource EXCEPT !.name = <<"Hacker News">>], "url") }

\* feed_config.get('enabled', True) (line 100), web_config.get('enabled',
\* False) (line 111)
IsEnabled(src, default) ==
    IF "enabled" \in DOMAIN src THEN src.enabled ELSE default

\* the keys the constructor call reads with [...] (lines 101-106, 112-122);
\* a web source named "Hacker News" is built without url and category
KeysRead(src, web) ==
    IF web /\ "name" \in DOMAIN src /\ src.name = <<"Hacker News">>
    THEN {"name"}
    ELSE {"name", "url", "category"}

\* _create_scrapers raises KeyError on the first enabled source that lacks
\* a key it reads
CreateScrapersRaises(config) ==
    \/ \E i \in 1..Len(config.rss_feeds) :
        /\ IsEnabled(config.rss_feeds[i], TRUE)
        /\ ~(KeysRead(config.rss_feeds[i], FALSE) \subseteq DOMAIN config.rss_feeds[i])
    \/ \E i \in 1..Len(config.web_sources) :
        /\ IsEnabled(config.web_sources[i], FALSE)
        /\ ~(KeysRead(config.web_sources[i], TRUE) \subseteq DOMAIN config.web_sources[i])

\* __init__ (lines 27-32): _load_config, then self.config['storage']['path'];
\* nothing else of the configuration is read
ConstructorRaises(config) == ~config.storage

\* configurations with at most MaxSources sources in the two lists together
Configs ==
    UNION {{[storage |-> st, categories |-> cats, rss_feeds |-> r, web_sources |-> w] :
                st \in BOOLEAN, cats \in BOOLEAN,
                r \in [1..n -> SourceEntries],
                w \in SeqsUpTo(SourceEntries, MaxSources - n)} : n \in 0..MaxSources}

InitConfig ==
    /\ files = EmptyDir
    /\ now = MaxTime - 1
    /\ ops = 0
    /\ ret = [op |-> "init", raised |-> FALSE]
    /\ cfg \in Configs
    /\ pc = "unconstructed"
    /\ fut = <<>>
    /\ early = {}
    /\ finishOrder = <<>>
    /\ handled = <<>>
    /\ all_articles = <<>>
    /\ saveLog = <<>>
    /\ SideIdle

ConfigFrame ==
    /\ UNCHANGED <<files, now, ops>>
    /\ UNCHANGED <<cfg, fut, early, finishOrder, handled, all_articles, saveLog>>
    /\ UNCHANGED sideVars

\* NewsAggregator(config_path)
Construct ==
    /\ pc = "unconstructed"
    /\ pc' = IF ConstructorRaises(cfg) THEN "construct_raised" ELSE "constructed"
    /\ ret' = [op |-> "construct", raised |-> ConstructorRaises(cfg)]
    /\ ConfigFrame

\* scrape_all_sources up to and including _create_scrapers (lines 45-50);
\* what follows for a configuration that passes is the aggregation run
EnterScrapeAllSources ==
    /\ pc = "constructed"
    /\ ret' = [op |-> "scrape_all_sources", raised |-> CreateScrapersRaises(cfg)]
    /\ pc' = pc
    /\ ConfigFrame

\* get_recent_articles (lines 136-138) reads the storage only
GetRecentArticles ==
    /\ pc = "constructed"
    /\ \E order \in DirOrders(files) :
        ret' = [op |-> "get_recent_articles",
                raised |-> get_latest_articles(files, now, 50, NoCategory, order).raised]
    /\ pc' = pc
    /\ ConfigFrame

\* get_stats (lines 162-170) reads the two source lists' lengths and
\* config['categories']
GetStats ==
    /\ pc = "constructed"
    /\ ret' = [op |-> "get_stats", raised |-> ~cfg.categories]
    /\ pc' = pc
    /\ ConfigFrame

NextConfig ==
    \/ Construct
    \/ EnterScrapeAllSources
    \/ GetRecentArticles
    \/ GetStats

SpecConfig == InitConfig /\ [][NextConfig]_vars

\* ------------------------------------------------------------ load racing cleanup
\* a directory-scan load_articles and a cleanup_old_articles in two threads
\* of one process, each taken one file-system call at a time
InitRace ==
    /\ files \in InitDirs \ {EmptyDir}
    /\ now = MaxTime - 1
    /\ ops = 0
    /\ ret = [op |-> "init", raised |-> FALSE]
    /\ RunIdle
    /\ scr = NoScraper
    /\ proc = NoProcessor
    /\ scan = NoScan

RaceFrame ==
    /\ UNCHANGED <<now, ops, ret>>
    /\ UNCHANGED runVars
    /\ UNCHANGED <<scr, proc>>

\* load_articles lines 72-74: the cutoff, then glob("*.json") lists the
\* directory as it is now
LoadBegin ==
    /\ scan.loader.pc = "idle"
    /\ \E max_age_days \in MaxAgeChoices, source \in SourceFilters,
          order \in DirOrders(files) :
        scan' = [scan EXCEPT !.loader =
                    [pc |-> "stat", order |-> order, i |-> 1,
                     cutoff |-> Cutoff(now, max_age_days),
                     max_age_days |-> max_age_days, source |-> source,
                     listed |-> files, parts |-> <<>>]]
    /\ UNCHANGED files
    /\ RaceFrame

\* lines 76-81 for the next listed file: json_file.stat() raises when the
\* file is not there any more, and nothing in load_articles catches that
LoadStat ==
    /\ scan.loader.pc = "stat"
    /\ scan.loader.i <= Len(scan.loader.order)
    /\ LET l == scan.loader
           name == l.order[l.i]
       IN  scan' = [scan EXCEPT !.loader =
             IF name \notin DOMAIN files \/ StatRaises(files[name])
             THEN [l EXCEPT !.pc = "raised"]
             ELSE IF \/ LoadSkips(files[name].mtime, l.cutoff)
                     \/ l.source # NoLabel /\ ~Contains(name, l.source)
             THEN [l EXCEPT !.i = @ + 1, !.parts = Append(@, <<>>)]
             ELSE [l EXCEPT !.pc = "open"]]
    /\ UNCHANGED files
    /\ RaceFrame

\* line 83: _load_file opens and reads the file; a file that is gone makes
\* open() raise, which _load_file catches
LoadOpen ==
    /\ scan.loader.pc = "open"
    /\ LET l == scan.loader
       IN  scan' = [scan EXCEPT !.loader =
             [l EXCEPT !.pc = "stat", !.i = @ + 1,
                       !.parts = Append(@, _load_file(files, l.order[l.i]))]]
    /\ UNCHANGED files
    /\ RaceFrame

\* line 85
LoadReturn ==
    /\ scan.loader.pc = "stat"
    /\ scan.loader.i > Len(scan.loader.order)
    /\ scan' = [scan EXCEPT !.loader.pc = "returned"]
    /\ UNCHANGED files
    /\ RaceFrame

\* cleanup_old_articles lines 127-130
CleanupBegin ==
    /\ scan.cleaner.pc = "idle"
    /\ \E max_age_days \in MaxAgeChoices, order \in DirOrders(files) :
        scan' = [scan EXCEPT !.cleaner =
                    [pc |-> "scan", order |-> order, i |-> 1,
                     cutoff |-> Cutoff(now, max_age_days),
                     max_age_days |-> max_age_days]]
    /\ UNCHANGED files
    /\ RaceFrame

\* lines 131-137 for the next listed file
CleanupStep ==
    /\ scan.cleaner.pc = "scan"
    /\ scan.cleaner.i <= Len(scan.cleaner.order)
    /\ LET c == scan.cleaner
           name == c.order[c.i]
       IN  IF name \notin DOMAIN files \/ StatRaises(files[name])
           THEN /\ scan' = [scan EXCEPT !.cleaner.pc = "raised"]
                /\ UNCHANGED files
           ELSE /\ scan' = [scan EXCEPT !.cleaner.i = @ + 1]
                /\ files' = IF CleanupSelects(files[name].mtime, c.cutoff)
                               /\ ~files[name].locked
                            THEN Remove(files, name) ELSE files
    /\ RaceFrame

CleanupReturn ==
    /\ scan.cleaner.pc = "scan"
    /\ scan.cleaner.i > Len(scan.cleaner.order)
    /\ scan' = [scan EXCEPT !.cleaner.pc = "returned"]
    /\ UNCHANGED files
    /\ RaceFrame

NextRace ==
    \/ LoadBegin
    \/ LoadStat
    \/ LoadOpen
    \/ LoadReturn
    \/ CleanupBegin
    \/ CleanupStep
    \/ CleanupReturn

SpecRace == InitRace /\ [][NextRace]_vars

\* ------------------------------------------------------------ stored articles
\* process_stored_articles(max_articles=50)
DefaultMaxStored == 50

MaxStoredChoices == {2, DefaultMaxStored}

\* f"processed_{source or 'all'}" (processor.py line 142)
ProcessedLabel(source) ==
    <<"processed", "_">> \o (IF source # NoLabel THEN source ELSE <<"all">>)

\* lines 129-131: articles[:max_articles] when max_articles is truthy
LimitTo(articles, max_articles) ==
    IF max_articles # 0 /\ Len(articles) > max_articles
    THEN SliceTo(articles, max_articles)
    ELSE articles

\* the Articles behind the references process_articles returns
ProcessedValues(r) == [i \in 1..Len(r.refs) |-> r.heap[r.refs[i]]]

\* lines 134-138: process_articles(articles, summarize, categorize)
ProcessedOf(p, articles, apis) ==
    ProcessedValues(process_articles(p, articles, [i \in 1..Len(articles) |-> i],
                                     TRUE, TRUE, DefaultMaxSummaryLength,
                                     [i \in 1..Len(articles) |-> apis]))

\* lines 141-145: the processed articles are saved unless there are none
SaveProcessed(fs, articles, processed, s) ==
    IF processed = <<>>
    THEN [files |-> fs, raised |-> FALSE, input |-> articles,
          value |-> processed, path |-> NoPath]
    ELSE [files |-> s.files, raised |-> s.raised, input |-> articles,
          value |-> processed, path |-> s.path]

ProcessLimited(fs, clock, source, articles, processed) ==
    SaveProcessed(fs, articles, processed,
                  save_articles(fs, clock, processed, ProcessedLabel(source), "none"))

\* lines 127-138: a load that raises ends the call
ProcessLoaded(p, fs, clock, source, max_articles, apis, loaded) ==
    IF loaded.raised
    THEN [files |-> fs, raised |-> TRUE, input |-> <<>>, value |-> <<>>,
          path |-> NoPath]
    ELSE ProcessLimited(fs, clock, source, LimitTo(loaded.value, max_articles),
                        ProcessedOf(p, LimitTo(loaded.value, max_articles), apis))

\* process_stored_articles (processor.py lines 118-145): load the stored
\* articles of the source (default window), keep the first max_articles,
\* process them, save the result under the processed label unless empty.
\* apis: how the model calls go for each article
process_stored_articles(p, fs, clock, source, max_articles, order, apis) ==
    ProcessLoaded(p, fs, clock, source, max_articles, apis,
                  load_articles(fs, clock, NoPath, source, DefaultMaxAgeDays, order))

\* the processor the runs are made with: the API backend with its
\* credential, whose calls can succeed or fail
FeedEnvironments ==
    {env \in Environments :
        /\ env.summarizer_backend = "openai"
        /\ env.categorizer_backend = "openai"
        /\ env.api_key /\ env.openai /\ env.transformers}

\* directories left behind by earlier scraping runs
FeedDirs ==
    { Saved(EmptyDir, 0, <<a1, a3>>, <<"A">>),
      Saved(Saved(EmptyDir, 0, <<a3>>, <<"A">>), 1, <<a1, a2>>, <<"B">>) }

InitFeedback ==
    /\ files \in FeedDirs
    /\ now = MaxTime - 1
    /\ ops = 0
    /\ ret = [op |-> "init", raised |-> FALSE]
    /\ RunIdle
    /\ scr = NoScraper
    /\ scan = NoScan
    /\ \E env \in FeedEnvironments : proc = [pc |-> "new", env |-> env]

\* processor.process_stored_articles(source, max_articles)
ProcessStoredArticles ==
    /\ proc.pc = "ready"
    /\ ops < MaxOps
    /\ \E source \in SourceFilters, max_articles \in MaxStoredChoices,
          order \in DirOrders(files), api \in BOOLEAN :
        LET r == process_stored_articles(proc, files, now, source, max_articles,
                                         order, [summary |-> api, category |-> api])
        IN  /\ files' = r.files
            /\ ret' = [op |-> "process_stored", source |-> source,
                       max_articles |-> max_articles, before |-> files,
                       at |-> now, input |-> r.input, value |-> r.value,
                       path |-> r.path, raised |-> r.raised]
    /\ ops' = ops + 1
    /\ UNCHANGED <<now, proc, scr, scan>>
    /\ UNCHANGED runVars

NextFeedback ==
    \/ Tick
    \/ ConstructProcessor
    \/ ProcessStoredArticles

SpecFeedback == InitFeedback /\ [][NextFeedback]_vars

\* ------------------------------------------------------------ C1
\* C1: loading the file that save_articles returned yields a list of the
\* same length whose i-th element equals the i-th saved Article in every
\* field.
RoundTripIdentity ==
    (ret.op = "save" /\ ~ret.raised) =>
        LET loaded == load_articles(files, now, ret.path, NoLabel,
                                    DefaultMaxAgeDays, <<>>)
        IN  /\ ~loaded.raised
            /\ Len(loaded.value) = Len(ret.articles)
            /\ \A i \in 1..Len(ret.articles) :
                \A k \in ArticleKeys : loaded.value[i][k] = ret.articles[i][k]

RoundTripWitness ==
    /\ ret.op = "save"
    /\ ~ret.raised
    /\ Len(ret.articles) = 2
    /\ ret.articles[1] = a2
    /\ ret.articles[2] = a3

\* ------------------------------------------------------------ C2
\* C2: every successful save_articles call creates a new batch file and no
\* existing batch file is modified or replaced: the directory holds one file
\* more than before and all earlier files keep their content.
SaveCreatesNewFile ==
    (ret.op = "save" /\ ~ret.raised) =>
        /\ ret.path \notin DOMAIN ret.before
        /\ Cardinality(DOMAIN files) = Cardinality(DOMAIN ret.before) + 1
        /\ \A f \in DOMAIN ret.before :
            f \in DOMAIN files /\ files[f] = ret.before[f]

\* ------------------------------------------------------------ C8
\* what the scan returns when a file that cannot be loaded contributes
\* nothing: the articles of the in-window, matching files, in listing order
RECURSIVE ExpectedScan(_, _, _, _, _)
ExpectedScan(fs, order, i, cutoff, source) ==
    IF i > Len(order) THEN <<>>
    ELSE LET name == order[i]
             inWindow == fs[name].kind = "dangling" \/ ~(fs[name].mtime < cutoff)
             matches == source = NoLabel \/ Contains(name, source)
         IN  (IF inWindow /\ matches THEN _load_file(fs, name) ELSE <<>>)
             \o ExpectedScan(fs, order, i + 1, cutoff, source)

\* C8: the directory scan of load_articles never aborts because of one bad
\* file: a file that cannot be read or parsed, or that holds an invalid
\* record, contributes nothing, and the articles of every other in-window
\* file are returned.
ScanSurvivesBadFile ==
    ret.op = "load" =>
        /\ ~ret.raised
        /\ ret.value = ExpectedScan(ret.before, ret.order, 1,
                                    Cutoff(ret.at, ret.max_age_days), ret.source)

NonIncreasing(articles) ==
    \A i \in 1..(Len(articles) - 1) :
        LET x == articles[i].scraped_at
            y == articles[i + 1].scraped_at
        IN  \/ Instant(x) > Instant(y)
            \/ Instant(x) = Instant(y) /\ x.usec >= y.usec

\* C10: for every storage content and every limit N (a count, N >= 0),
\* get_latest_articles(limit=N) returns at most N articles, non-increasing in
\* scraped_at.
LatestAtMostLimit ==
    (ret.op = "latest" /\ ~ret.raised) =>
        /\ Len(ret.value) <= ret.limit
        /\ NonIncreasing(ret.value)

LatestWitness ==
    /\ ret.op = "latest"
    /\ ~ret.raised
    /\ ret.limit = 3
    /\ Len(ret.value) = 3
    /\ ret.value[1].scraped_at # ret.value[3].scraped_at

\* ------------------------------------------------------------ C11
Count(s, x) == Cardinality({i \in 1..Len(s) : s[i] = x})

\* the articles get_articles_by_category loaded
LoadedForBuckets ==
    load_articles(ret.before, ret.at, NoPath, NoLabel, DefaultMaxAgeDays,
                  ret.order).value

RECURSIVE CountInBuckets(_, _, _)
CountInBuckets(buckets, keys, x) ==
    IF keys = {} THEN 0
    ELSE LET c == CHOOSE k \in keys : TRUE
         IN  Count(buckets[c], x) + CountInBuckets(buckets, keys \ {c}, x)

\* C11: get_articles_by_category partitions the loaded articles: an article
\* without a category is in the 'uncategorized' bucket, every other article
\* in the bucket named by its category, nowhere else, and the buckets
\* together hold every loaded article as often as it was loaded.
BucketsPartitionLoaded ==
    (ret.op = "by_category" /\ ~ret.raised) =>
        LET loaded == LoadedForBuckets
            elems == {loaded[i] : i \in 1..Len(loaded)}
            held == UNION {{ret.value[c][i] : i \in 1..Len(ret.value[c])} :
                              c \in DOMAIN ret.value}
        IN  /\ held = elems
            /\ \A x \in elems :
                LET home == IF x.category.t = "none" \/ x.category = Str("")
                            THEN "uncategorized" ELSE x.category.v
                IN  /\ home \in DOMAIN ret.value
                    /\ Count(ret.value[home], x) = Count(loaded, x)
                    /\ \A c \in DOMAIN ret.value \ {home} :
                        Count(ret.value[c], x) = 0
                    /\ CountInBuckets(ret.value, DOMAIN ret.value, x) = Count(loaded, x)

BucketsWitness ==
    /\ ret.op = "by_category"
    /\ ~ret.raised
    /\ DOMAIN ret.value = {"tech", "uncategorized"}
    /\ \E i, j \in 1..Len(ret.value["uncategorized"]) :
        /\ ret.value["uncategorized"][i].category = None
        /\ ret.value["uncategorized"][j].category = Str("uncategorized")
    /\ \E x \in {a1} : Count(ret.value["tech"], x) >= 2


\* ------------------------------------------------------------ run claims
RunOver == pc \in {"returned", "raised"}

SourceSaves(i) ==
    {k \in 1..Len(saveLog) : saveLog[k].kind = "source" /\ saveLog[k].scraper = i}

AggregateSaves == {k \in 1..Len(saveLog) : saveLog[k].kind = "aggregate"}

FinishPos(i) == CHOOSE k \in 1..Len(finishOrder) : finishOrder[k] = i

\* what scraper i contributes: nothing when its scrape_articles raised
Contribution(i) ==
    IF fut[i].outcome.raises THEN <<>> ELSE fut[i].outcome.articles

RECURSIVE ConcatHandled(_)
ConcatHandled(k) ==
    IF k > Len(handled) THEN <<>>
    ELSE Contribution(handled[k]) \o ConcatHandled(k + 1)

RECURSIVE SumResults(_)
SumResults(i) ==
    IF i > Len(fut) THEN 0 ELSE Len(fut[i].result) + SumResults(i + 1)

\* C3: during one aggregation run no two saves target the same file name, so
\* no batch written in the run is overwritten by another save of that run,
\* for every configuration of enabled sources.
RunWritesDistinctFiles ==
    \A j, k \in 1..Len(saveLog) :
        (j < k /\ ~saveLog[j].raised /\ ~saveLog[k].raised)
            => saveLog[j].path # saveLog[k].path

\* C4: a failed storage write is never swallowed: when a per-source or the
\* aggregate save fails inside scrape_all_sources, the run does not return
\* normally.
SaveFailureReachesCaller ==
    pc = "returned" => \A k \in 1..Len(saveLog) : ~saveLog[k].raised

\* C5: a scraper whose scrape_articles raises contributes zero articles and
\* does not abort the run: the result is exactly what the other scrapers
\* produced, and nothing but a failed aggregate write makes the run raise.
ScraperFailureIsolated ==
    /\ pc = "returned" => all_articles = ConcatHandled(1)
    /\ pc = "raised" =>
        /\ saveLog # <<>>
        /\ saveLog[Len(saveLog)].kind = "aggregate"
        /\ saveLog[Len(saveLog)].raised

ScraperFailureWitness ==
    /\ pc = "returned"
    /\ cfg.parallel
    /\ Len(fut) = 2
    /\ \E i, j \in DOMAIN fut :
        /\ fut[i].outcome.raises
        /\ ~fut[j].outcome.raises
        /\ all_articles = fut[j].outcome.articles
        /\ all_articles # <<>>

\* C6 as stated: exactly one save_articles call per enabled scraper per run,
\* whatever the size of its result, made before any later-finishing scraper's
\* result is handled, plus one aggregate call.
OneSavePerScraper ==
    RunOver =>
        /\ \A i \in DOMAIN fut : Cardinality(SourceSaves(i)) = 1
        /\ \A k \in 1..Len(saveLog) :
            saveLog[k].kind = "source" =>
                \A m \in 1..Len(saveLog[k].handledBefore) :
                    FinishPos(saveLog[k].handledBefore[m]) < FinishPos(saveLog[k].scraper)
        /\ Cardinality(AggregateSaves) = 1

\* C6 amended: exactly one save_articles call for every scraper whose result
\* is non-empty and none for a scraper whose result is empty, made when the
\* loop handles that result and before it handles any later one, plus one
\* aggregate call when the concatenation is non-empty.
OneSavePerNonEmptyResult ==
    /\ \A i \in DOMAIN fut :
        Cardinality(SourceSaves(i)) =
            IF IsHandled(i) /\ fut[i].result # <<>> THEN 1 ELSE 0
    /\ \A k \in 1..Len(saveLog) :
        saveLog[k].kind = "source" =>
            /\ saveLog[k].articles = fut[saveLog[k].scraper].result
            /\ Len(handled) > Len(saveLog[k].handledBefore)
            /\ handled[Len(saveLog[k].handledBefore) + 1] = saveLog[k].scraper
            /\ SubSeq(handled, 1, Len(saveLog[k].handledBefore)) = saveLog[k].handledBefore
    /\ Cardinality(AggregateSaves) =
        IF RunOver /\ all_articles # <<>> THEN 1 ELSE 0

OneSaveWitness ==
    /\ pc = "returned"
    /\ Len(fut) = 2
    /\ \E i, j \in DOMAIN fut :
        /\ ~fut[i].outcome.raises
        /\ fut[i].result = <<>>
        /\ fut[j].result # <<>>
        /\ SourceSaves(i) = {}
        /\ Cardinality(SourceSaves(j)) = 1
    /\ Cardinality(AggregateSaves) = 1

\* C7: the "all_sources" save happens only after every scraper has finished
\* and every per-source save has been attempted, and the batch it writes
\* holds exactly the concatenation of all results: its articles are the list
\* the run returns and its count is the sum of the result sizes.
AggregateAfterAll ==
    \A k \in AggregateSaves :
        /\ k = Len(saveLog)
        /\ RunOver
        /\ saveLog[k].unfinished = {}
        /\ Len(saveLog[k].handledBefore) = Len(Scrapers)
        /\ \A i \in DOMAIN fut : fut[i].result # <<>> => SourceSaves(i) # {}
        /\ saveLog[k].articles = all_articles
        /\ Len(all_articles) = SumResults(1)
        /\ ~saveLog[k].raised =>
            /\ saveLog[k].path \in DOMAIN files
            /\ files[saveLog[k].path].content.t = "json"
            /\ files[saveLog[k].path].content.v.v.count = SumResults(1)
            /\ _load_file(files, saveLog[k].path) = all_articles

AggregateWitness ==
    /\ pc = "returned"
    /\ Len(fut) = 2
    /\ \A i \in DOMAIN fut : fut[i].result # <<>>
    /\ \E k \in 1..Len(saveLog) : saveLog[k].kind = "source" /\ saveLog[k].raised
    /\ \E k \in AggregateSaves : ~saveLog[k].raised /\ Len(saveLog[k].articles) >= 3

\* ------------------------------------------------------------ C12
\* an entry that yields no Article: no title, no link, or parsing raises
Malformed(kind, e) == ReturnsNone(kind, e) \/ e.raises # "no"

\* the positions of the entries scrape_articles considered
ConsideredIdx == 1..Len(SliceTo(scr.entries, scr.max_articles))

WellFormedIdx == {k \in ConsideredIdx : ~Malformed(scr.kind, scr.entries[k])}

\* C12: when exactly one of the N entries RSSFeedScraper.scrape_articles
\* considered is malformed (no title, no link, or raising while parsed), the
\* scraper returns the other N-1 entries as Articles, in feed order.
OneMalformedEntrySkipped ==
    (scr.pc = "done" /\ scr.kind = "rss"
        /\ Cardinality(ConsideredIdx \ WellFormedIdx) = 1) =>
        /\ Len(scr.articles) = Cardinality(ConsideredIdx) - 1
        /\ \A j \in 1..Len(scr.articles) :
            /\ scr.articles[j].title \in
                  {Str("t" \o ToString(k)) : k \in WellFormedIdx}
            /\ \A m \in 1..(j - 1) :
                \E k1, k2 \in WellFormedIdx :
                    /\ k1 < k2
                    /\ scr.articles[m].title = Str("t" \o ToString(k1))
                    /\ scr.articles[j].title = Str("t" \o ToString(k2))

OneMalformedWitness ==
    /\ scr.pc = "done"
    /\ scr.kind = "rss"
    /\ Len(scr.entries) = 3
    /\ scr.max_articles = DefaultMaxArticles
    /\ scr.entries[2].raises = "late"
    /\ Len(scr.articles) = 2
    /\ scr.articles[2].title = Str("t3")

\* ------------------------------------------------------------ C13
ValidIdx == {k \in 1..Len(scr.entries) : ~Malformed(scr.kind, scr.entries[k])}

FromThisScraper ==
    \A j \in 1..Len(scr.articles) :
        /\ scr.articles[j].source = Str(scr.source_name)
        /\ scr.articles[j].category = Str(scr.category)

\* C13 as stated: scrape_articles never returns more than
\* max_articles_per_source Articles; from a feed with more valid entries than
\* that cap it returns exactly cap-many; every returned Article carries the
\* scraper's name as source and the scraper's category.
CapReachedWhenEnoughValid ==
    scr.pc = "done" =>
        /\ Len(scr.articles) <= scr.max_articles
        /\ Cardinality(ValidIdx) > scr.max_articles =>
                Len(scr.articles) = scr.max_articles
        /\ FromThisScraper

\* C13 amended: scrape_articles never returns more than
\* max_articles_per_source Articles; from a feed with more entries than that
\* cap whose first cap-many entries are all valid it returns exactly
\* cap-many; every returned Article carries the scraper's name as source and
\* the scraper's category.
CapReachedWhenFirstValid ==
    scr.pc = "done" =>
        /\ Len(scr.articles) <= scr.max_articles
        /\ (/\ Len(scr.entries) > scr.max_articles
            /\ 1..scr.max_articles \subseteq ValidIdx) =>
                Len(scr.articles) = scr.max_articles
        /\ FromThisScraper

CapWitness ==
    /\ scr.pc = "done"
    /\ scr.kind = "rss"
    /\ scr.max_articles = 2
    /\ Len(scr.entries) = 3
    /\ ValidIdx = {1, 2, 3}
    /\ Len(scr.articles) = 2
    /\ scr.articles[2].source = Str(<<"A">>)
    /\ scr.articles[2].category = Str("world")

\* ------------------------------------------------------------ C14
\* the sum of the quotients num/den is 1: they share one denominator, which
\* the numerators add up to
RECURSIVE SumNum(_, _)
SumNum(scores, keys) ==
    IF keys = {} THEN 0
    ELSE LET k == CHOOSE x \in keys : TRUE
         IN  scores[k].num + SumNum(scores, keys \ {k})

ScoresSumToOne(scores) ==
    /\ \A c \in DOMAIN scores : scores[c].num >= 0 /\ scores[c].den > 0
    /\ \E den \in 1..(10 * (MaxCats + 2)) :
        /\ \A c \in DOMAIN scores : scores[c].den = den
        /\ SumNum(scores, DOMAIN scores) = den

\* C14 as stated: for every text and every candidate category list the
\* scores of the keyword fallback are all non-negative and sum to 1.
FallbackScoresSumToOne ==
    proc.pc = "scored" => ScoresSumToOne(proc.scores)

\* C14 amended: for every text and every non-empty candidate category list
\* the scores of the keyword fallback are all non-negative and sum to 1;
\* for the empty list there are no scores.
FallbackScoresSumToOneNonEmpty ==
    proc.pc = "scored" =>
        IF proc.categories # <<>>
        THEN ScoresSumToOne(proc.scores)
        ELSE DOMAIN proc.scores = {}

FallbackWitness ==
    /\ proc.pc = "scored"
    /\ proc.categories = <<"tech", "finance">>
    /\ proc.scores["tech"] = [num |-> 10, den |-> 13]
    /\ proc.scores["finance"] = [num |-> 3, den |-> 13]

\* ------------------------------------------------------------ C15
\* an enabled source without name, url or category
LacksRequiredKey(src, default) ==
    IsEnabled(src, default) /\ ~({"name", "url", "category"} \subseteq DOMAIN src)

BadConfiguration ==
    \/ \E i \in 1..Len(cfg.rss_feeds) : LacksRequiredKey(cfg.rss_feeds[i], TRUE)
    \/ \E i \in 1..Len(cfg.web_sources) : LacksRequiredKey(cfg.web_sources[i], FALSE)

\* C15: a configuration in which an enabled source lacks name, url or
\* category is rejected when the NewsAggregator is constructed, so that no
\* scrape, query or statistics operation ever runs on it.
BadConfigRejectedAtConstruction ==
    (pc # "unconstructed" /\ BadConfiguration) =>
        /\ pc = "construct_raised"
        /\ ret.op = "construct"

\* ------------------------------------------------------------ C16
\* the requests issued so far
Requests == {k \in 1..Len(scr.log) : scr.log[k].e = "fetch_begin"}

\* C16: every network call of a scraper (the feed fetch, the base-page
\* fetch, every linked-page fetch) carries a timeout, so that a scraper is
\* never left waiting on a host that does not answer: until scrape_articles
\* has returned it can always take its next step.
EveryRequestTimesOut ==
    /\ \A k \in Requests : scr.log[k].timeout # NoTimeout
    /\ scr.pc # "done" => ENABLED NextScrape

\* ------------------------------------------------------------ C20
\* no request is issued while another is in flight
FetchesNeverOverlap ==
    \A k \in Requests :
        \A m \in Requests :
            m < k => \E r \in (m + 1)..(k - 1) : scr.log[r].e = "fetch_end"

\* C20: within one scraper instance HTTP fetches never overlap, and between
\* any two successive fetches (feed or base page, then each linked article
\* page) there is at least one rate_limit() sleep.
SleepBetweenFetches ==
    /\ FetchesNeverOverlap
    /\ \A k \in Requests :
        \A m \in Requests :
            m < k => \E r \in (m + 1)..(k - 1) : scr.log[r].e = "sleep"

\* ------------------------------------------------------------ C17
\* C17: a summarizer or categorizer backend failure (no API credential, a
\* failing model call, the backend library missing) never raises to the
\* caller of ArticleProcessor, neither at construction nor in
\* process_article, and the summarize or categorize call it affects yields
\* the heuristic fallback's result: the leading-sentence summary, the
\* keyword-score category.
BackendFailureFallsBack ==
    /\ proc.pc # "construct_raised"
    /\ proc.pc = "processed" =>
        \A i \in 1..Len(proc.input) :
            LET result == proc.heap[proc.output[i]]
                body == proc.before[i].body.v
            IN  /\ proc.trace[i].summary = "failed" =>
                    result.summary = _fallback_summarize(body, proc.max_summary_length)
                /\ proc.trace[i].category = "failed" =>
                    result.category = Str(FallbackCategory(body))

\* ------------------------------------------------------------ C18
\* C18: process_article and process_articles never modify the Article
\* objects passed in: afterwards every input article has the field values it
\* had before the call, summary and category included, and the enrichment is
\* on the returned objects, none of which is an input object.
InputsNeverModified ==
    proc.pc = "processed" =>
        /\ \A i \in 1..Len(proc.input) :
            /\ proc.heap[proc.input[i]] = proc.before[i]
            /\ \A j \in 1..Len(proc.input) : proc.output[i] # proc.input[j]
        /\ \A r \in 1..Len(InitialHeap) : proc.heap[r] = InitialHeap[r]

InputsWitness ==
    /\ proc.pc = "processed"
    /\ proc.op = "process_articles"
    /\ Len(proc.input) = 2
    /\ proc.input[1] = proc.input[2]
    /\ \A i \in 1..2 :
        /\ proc.heap[proc.output[i]].summary # proc.before[i].summary
        /\ proc.heap[proc.output[i]].category # proc.before[i].category

\* ------------------------------------------------------------ C19
\* every way load_articles() with no filter can come out after the run
LoadsAfterRun ==
    {load_articles(files, now, NoPath, NoLabel, DefaultMaxAgeDays, order) :
        order \in DirOrders(files)}

\* C19: load_articles does not deduplicate across batches: after one
\* scrape_all_sources run into an empty directory in which every source
\* returned at least one article and every save succeeded, load_articles()
\* with no filter returns every scraped article exactly twice, once from its
\* per-source batch and once from the 'all_sources' batch.
EveryArticleLoadedTwice ==
    (/\ pc = "returned"
     /\ Len(fut) >= 1
     /\ \A i \in DOMAIN fut : fut[i].result # <<>>
     /\ \A k \in 1..Len(saveLog) : ~saveLog[k].raised) =>
        \A loaded \in LoadsAfterRun :
            /\ ~loaded.raised
            /\ Len(loaded.value) = 2 * Len(all_articles)
            /\ \A x \in Pool : Count(loaded.value, x) = 2 * Count(all_articles, x)

\* ------------------------------------------------------------ C21
Sleeps == SelectSeq(scr.log, LAMBDA ev : ev.e = "sleep")

\* C21: rate_limit() runs exactly once for each entry that yields an Article
\* and never for an entry that is skipped or whose parsing fails: at every
\* point of a scrape the sleeps are as many as the Articles collected, the
\* j-th sleep follows the entry that yielded the j-th Article, and that entry
\* neither returned None nor raised
SleepOncePerArticle ==
    /\ Len(Sleeps) = Len(scr.articles)
    /\ \A j \in DOMAIN Sleeps :
          LET k == Sleeps[j].entry
          IN  /\ k \in DOMAIN scr.entries
              /\ scr.articles[j].url = Str("u" \o ToString(k))
              /\ ~ReturnsNone(scr.kind, scr.entries[k])
              /\ scr.entries[k].raises = "no"
    /\ \A j, l \in DOMAIN Sleeps : j < l => Sleeps[j].entry < Sleeps[l].entry

\* a finished scrape that returned an Article, skipped an entry that parsed
\* to None and skipped one whose parsing raised
SleepWitness ==
    /\ scr.pc = "done"
    /\ Len(scr.articles) >= 1
    /\ \E k \in DOMAIN Considered(scr.entries, scr.max_articles) :
          ReturnsNone(scr.kind, scr.entries[k])
    /\ \E k \in DOMAIN Considered(scr.entries, scr.max_articles) :
          ~ReturnsNone(scr.kind, scr.entries[k]) /\ scr.entries[k].raises # "no"

\* ------------------------------------------------------------ C22
Running == {i \in DOMAIN fut : fut[i].state = "running"}

\* C22: in a parallel run at most 5 scrapers execute at any moment and each
\* enabled source's scraper is executed exactly once: once the calls are
\* submitted there is one future per enabled source, never more than
\* MaxWorkers of them are running, and the scrapers that have finished are
\* those whose future is done, each having finished once
AtMostFiveEachOnce ==
    /\ Cardinality(Running) <= MaxWorkers
    /\ pc # "start" =>
          Len(fut) = Len(SelectSeq(cfg.sources, LAMBDA src : src.enabled))
    /\ \A i \in DOMAIN fut :
          Count(finishOrder, i) = IF fut[i].state = "done" THEN 1 ELSE 0
    /\ \A k \in DOMAIN finishOrder : finishOrder[k] \in DOMAIN fut

\* the pool is full: five scrapers are executing and a sixth waits for a
\* free thread
PoolFullWitness ==
    /\ Cardinality(Running) = MaxWorkers
    /\ \E i \in DOMAIN fut : fut[i].state = "pending"

\* ------------------------------------------------------------ C23
\* C23: every Article scrape_articles returns, whichever the scraper (feed,
\* generic web, Hacker News), has a non-empty title, a non-empty url and a
\* scraped_at that is not null
ArticlesHaveTitleUrlScrapedAt ==
    \A j \in DOMAIN scr.articles :
        /\ scr.articles[j].title # Str("")
        /\ scr.articles[j].url # Str("")
        /\ scr.articles[j].scraped_at # None

\* ------------------------------------------------------------ C24
\* the fields enrichment leaves alone
KeptFields == {"title", "url", "body", "source", "published_at", "scraped_at",
               "author", "tags"}

\* C24: process_articles returns a list as long as its input whose i-th
\* element is the processed copy of the i-th input article (or that article
\* itself): nothing is dropped, duplicated or reordered, whichever backend
\* calls fail
ProcessingKeepsOrder ==
    (proc.pc = "processed" /\ proc.op = "process_articles") =>
        /\ Len(proc.output) = Len(proc.input)
        /\ \A i \in 1..Len(proc.input) :
              \/ proc.output[i] = proc.input[i]
              \/ /\ proc.output[i] \notin DOMAIN InitialHeap
                 /\ \A f \in KeptFields :
                       proc.heap[proc.output[i]][f] = proc.before[i][f]
        /\ \A i, j \in 1..Len(proc.output) :
              i # j => proc.output[i] # proc.output[j]

\* two different articles processed while the first one's model calls fail
ProcessingWitness ==
    /\ proc.pc = "processed"
    /\ proc.op = "process_articles"
    /\ Len(proc.input) = 2
    /\ proc.before[1].title # proc.before[2].title
    /\ proc.trace[1].summary = "failed"
    /\ proc.trace[1].category = "failed"
    /\ proc.trace[2].summary = "model"

\* ------------------------------------------------------------ C25
\* `if parallel and len(scrapers) > 1` (line 52)
ParallelRun == cfg.parallel /\ Len(Scrapers) > 1

\* a step of a pool thread: a future starts or finishes
WorkerStep == fut' # fut

\* a step of the coordinating thread in which it may save: one pass of the
\* as_completed loop, or the aggregate save after the pool has shut down
CoordinatorSaveStep ==
    \/ pc = "loop" /\ Len(handled') = Len(handled) + 1
    \/ pc = "aggregate" /\ \A i \in DOMAIN fut : fut[i].state = "done"

\* C25: in a parallel run the pool threads only scrape; every save_articles
\* call is made by the coordinating thread, in the as_completed loop or after
\* the pool has shut down, one call at a time: a step that changes the
\* storage directory or records a save is never a pool thread's step, it is
\* one of those coordinator steps, and it holds one save
SavesOnlyByCoordinator ==
    [][(ParallelRun /\ (files' # files \/ saveLog' # saveLog)) =>
          /\ ~WorkerStep
          /\ CoordinatorSaveStep
          /\ Len(saveLog') = Len(saveLog) + 1]_vars

\* a parallel run in which the coordinating thread saved one source's batch
\* while another source's pool thread was still scraping
CoordinatorSaveWitness ==
    /\ ParallelRun
    /\ pc = "returned"
    /\ \E k \in SourceSaves(1) \cup SourceSaves(2) :
          ~saveLog[k].raised /\ saveLog[k].unfinished # {}

\* ------------------------------------------------------------ C26
\* whether load_articles takes the listed file, judged on the listing
Wanted(l, name) ==
    /\ ~LoadSkips(l.listed[name].mtime, l.cutoff)
    /\ l.source = NoLabel \/ Contains(name, l.source)

\* C26: a directory-scan load_articles running concurrently with
\* cleanup_old_articles never raises: a batch file cleanup deletes between
\* load's listing and load's stat or open of it contributes no articles, and
\* the articles of the other files are returned
LoadSurvivesCleanup ==
    /\ scan.loader.pc # "raised"
    /\ scan.loader.pc = "returned" =>
        LET l == scan.loader
        IN  /\ Len(l.parts) = Len(l.order)
            /\ \A i \in 1..Len(l.order) :
                 l.parts[i] = IF Wanted(l, l.order[i]) /\ l.order[i] \in DOMAIN files
                              THEN _load_file(l.listed, l.order[i])
                              ELSE l.parts[i]
            /\ \A i \in 1..Len(l.order) :
                 l.parts[i] \in {<<>>, _load_file(l.listed, l.order[i])}

\* ------------------------------------------------------------ C27
\* C27: a save_articles call that fails leaves the storage directory as it
\* was before the call: no new, empty or truncated batch file of that save
\* is there for a later load_articles or cleanup scan to find
FailedSaveLeavesDirectory ==
    (ret.op = "save" /\ ret.raised) => files = ret.before

\* ------------------------------------------------------------ C28
\* load_articles(source=source) in the default window, in any one listing
\* order (the order changes the sequence, not what is in it)
LoadedNow(fs, clock, source) ==
    load_articles(fs, clock, NoPath, source, DefaultMaxAgeDays,
                  CHOOSE order \in DirOrders(fs) : TRUE).value

\* C28: processed batches feed back into later processing runs: after
\* process_stored_articles(source=s) has written its processed_<s or all>
\* batch, load_articles(source=s) returns that batch's articles too, so the
\* number of articles a load returns does not go down from one processing
\* run to the next, and a later run takes the enriched copies as input again
ProcessedBatchesFeedBack ==
    (ret.op = "process_stored" /\ ~ret.raised) =>
        LET after == LoadedNow(files, now, ret.source)
            before == LoadedNow(ret.before, ret.at, ret.source)
        IN  /\ \A i \in 1..Len(ret.value) :
                  Count(after, ret.value[i]) >= Count(ret.value, ret.value[i])
            /\ Len(after) >= Len(before)
            /\ Len(after) = Len(before) + Len(ret.value)
                   \/ \E name \in DOMAIN ret.before : name = ret.path
            /\ (ret.max_articles = DefaultMaxStored) =>
                  \A name \in DOMAIN ret.before :
                    (Head(name) = "processed"
                       /\ (ret.source = NoLabel \/ Contains(name, ret.source))) =>
                      LET batch == _load_file(ret.before, name)
                      IN  \A k \in 1..Len(batch) :
                            Count(ret.input, batch[k]) >= Count(batch, batch[k])

\* ------------------------------------------------------------ C29
\* what the sequential branch returns for the per-scraper results of this
\* run: their concatenation in configuration order
RECURSIVE ConcatConfigured(_)
ConcatConfigured(i) ==
    IF i > Len(fut) THEN <<>> ELSE fut[i].result \o ConcatConfigured(i + 1)

SameMultiset(s, t) ==
    /\ Len(s) = Len(t)
    /\ \A k \in 1..Len(s) : Count(s, s[k]) = Count(t, s[k])

\* the per-source save_articles calls made with this label and this batch
SourceSavesOf(label, batch) ==
    {k \in 1..Len(saveLog) :
        /\ saveLog[k].kind = "source"
        /\ saveLog[k].source_name = label
        /\ saveLog[k].articles = batch}

\* C29: for the same enabled scrapers and the same per-scraper results a
\* parallel and a sequential scrape_all_sources return the same multiset of
\* articles, write the same per-source batches and an aggregate batch with
\* the same content as a multiset; only the order of the concatenation can
\* differ.  Both are compared with what the results determine: the
\* concatenation in configuration order (which is the sequential run's list),
\* one batch per scraper with a non-empty result, one aggregate batch unless
\* everything is empty
ParallelEqualsSequential ==
    RunOver =>
        /\ SameMultiset(all_articles, ConcatConfigured(1))
        /\ ~ParallelRun => all_articles = ConcatConfigured(1)
        /\ \A i \in DOMAIN fut :
              Cardinality(SourceSavesOf(Scrapers[i], fut[i].result)) =
                IF fut[i].result = <<>> THEN 0
                ELSE Cardinality({j \in DOMAIN fut :
                        Scrapers[j] = Scrapers[i] /\ fut[j].result = fut[i].result})
        /\ \A k \in 1..Len(saveLog) :
              saveLog[k].kind = "source" =>
                \E i \in DOMAIN fut :
                    k \in SourceSavesOf(Scrapers[i], fut[i].result)
        /\ Cardinality(AggregateSaves) = IF ConcatConfigured(1) = <<>> THEN 0 ELSE 1
        /\ \A k \in AggregateSaves :
              SameMultiset(saveLog[k].articles, ConcatConfigured(1))

\* a parallel run over two sources with different results that handled the
\* second source first, so that its list is not the sequential one
ParallelOrderWitness ==
    /\ pc = "returned"
    /\ ParallelRun
    /\ Len(fut) = 2
    /\ handled = <<2, 1>>
    /\ fut[1].result # <<>>
    /\ fut[2].result # <<>>
    /\ all_articles # ConcatConfigured(1)

\* ------------------------------------------------------------ C30
\* the instant at which the store of this run was opened
RunStart == MaxTime - 1

\* the listing order left when the removed entries are taken out of it
RestrictOrder(order, keep) == SelectSeq(order, LAMBDA name : name \in keep)

\* C30: a cleanup_old_articles(max_age_days = D) deletes only files that a
\* load_articles(max_age_days = D) at the same instant skips, so the load
\* over the directory before the cleanup and the load over the directory
\* after it (same instant, same D, same source filter, same listing order of
\* the files that remain) return the same result; and when D > 0 a file
\* written since the store was opened is still there after the cleanup.
CleanupNeverChangesLoad ==
    ret.op = "cleanup" =>
        /\ \A name \in ret.removed :
               LoadSkips(ret.before[name].mtime, Cutoff(ret.at, ret.max_age_days))
        /\ \A source \in SourceFilters, order \in DirOrders(ret.before) :
               load_articles(ret.before, ret.at, NoPath, source,
                             ret.max_age_days, order)
                 = load_articles(files, ret.at, NoPath, source, ret.max_age_days,
                                 RestrictOrder(order, DOMAIN files))
        /\ ret.max_age_days > 0 =>
               \A name \in DOMAIN ret.before :
                   ret.before[name].mtime >= RunStart => name \in DOMAIN files

\* a cleanup with D > 0 removed an old file and kept a batch written since
\* the store was opened, which a load over the same window returns
CleanupKeepsFreshBatch ==
    /\ ret.op = "cleanup"
    /\ ~ret.raised
    /\ ret.max_age_days > 0
    /\ ret.removed # {}
    /\ \E name \in DOMAIN files :
           /\ files[name].mtime >= RunStart
           /\ _load_file(files, name) # <<>>
    /\ \E order \in DirOrders(files) :
           load_articles(files, ret.at, NoPath, NoLabel,
                         ret.max_age_days, order).value # <<>>
====
